---- MODULE Spec2Model ----
(***************************************************************************)
(* A model of the dual-layer memory system of bitwiseai                    *)
(* (src/bitwiseai/core/memory): chunker, SQLite storage, indexer, hybrid   *)
(* searcher and memory manager.                                            *)
(*                                                                         *)
(* Text is a sequence of characters; a character is a small natural        *)
(* number, NL standing for '\n'.  A hash (sha256) is modelled as an        *)
(* injective tag of the hashed text.  Scores are fixed-point numbers:      *)
(* channel scores and weights in tenths, merged scores in hundredths.      *)
(***************************************************************************)
EXTENDS Naturals, Integers, Sequences, FiniteSets, TLC

VARIABLES
    storage,        \* SQLiteStorage: the files, chunks and embedding_cache tables
    chunk_config,   \* ChunkConfig of the indexer's chunker
    last_call,      \* indexer: the index_file call that returned last
    sync_config,    \* MemoryConfig.sync: [on_search, watch]
    disk,           \* the memory files of the workspace: name -> text, or Absent
    dirty,          \* MemoryManager._dirty
    mgr,            \* the manager thread: where it is in initialize / sync / search
    watcher,        \* the file watcher: [running, pending], pending the files with a queued event
    owed,           \* files whose change callback was delivered and that no sync has indexed since
    srch,           \* the Searcher.search call in progress: its position and locals
    merge_call,     \* a _merge_results call: its two hit lists and what it returned
    connections,    \* SQLiteStorage._local: the threads whose connection is open
    threads         \* the calls that run concurrently, step by step: thread -> [pc, locals]

indexerVars == <<last_call>>
managerVars == <<sync_config, disk, dirty, mgr, watcher, owed>>
searchVars == <<srch, merge_call>>
connVars == <<connections, threads>>
vars == <<storage, chunk_config, last_call, sync_config, disk, dirty, mgr, watcher, owed,
          srch, merge_call, connections, threads>>

-----------------------------------------------------------------------------
(* Text *)

NL == 0

\* Python's None, where a hash, a vector or a text is expected
None == <<>>

Min(a, b) == IF a < b THEN a ELSE b

Range(seq) == {seq[i] : i \in 1..Len(seq)}

Take(seq, n) == SubSeq(seq, 1, Min(n, Len(seq)))

RECURSIVE SumSeq(_)
SumSeq(s) == IF s = <<>> THEN 0 ELSE Head(s) + SumSeq(Tail(s))

\* str.split('\n'): the lines of a text, at least one (the empty line).
RECURSIVE split(_)
split(content) ==
    IF \A i \in 1..Len(content) : content[i] # NL
    THEN <<content>>
    ELSE LET i == CHOOSE j \in 1..Len(content) :
                      content[j] = NL /\ \A m \in 1..(j - 1) : content[m] # NL
         IN <<SubSeq(content, 1, i - 1)>> \o split(SubSeq(content, i + 1, Len(content)))

\* ''.join(lines)
RECURSIVE join(_)
join(lines) == IF lines = <<>> THEN <<>> ELSE Head(lines) \o join(Tail(lines))

\* str.rstrip('\n')
RECURSIVE rstrip(_)
rstrip(text) ==
    IF text # <<>> /\ text[Len(text)] = NL
    THEN rstrip(SubSeq(text, 1, Len(text) - 1))
    ELSE text

\* not content.strip(): the text holds nothing but whitespace
IsBlank(content) == \A i \in 1..Len(content) : content[i] = NL

\* hashlib.sha256(text).hexdigest()[:16]
sha256(text) == <<"sha256", text>>

-----------------------------------------------------------------------------
(* MarkdownChunker *)

_create_chunk(text, path, source, start_line, end_line, chunk_idx) ==
    LET content_hash == sha256(text)
    IN [id |-> <<source, path, chunk_idx, content_hash>>,
        text |-> text,
        start_line |-> start_line + 1,
        end_line |-> end_line + 1,
        hash |-> content_hash,
        path |-> path,
        source |-> source]

\* The lines taken from the end of a sealed buffer to seed the next one.
RECURSIVE OverlapLines(_, _, _, _)
OverlapLines(current_chunk_lines, overlap_lines, overlap_size, config) ==
    IF current_chunk_lines = <<>> THEN overlap_lines
    ELSE LET overlap_line == current_chunk_lines[Len(current_chunk_lines)]
         IN IF overlap_size + Len(overlap_line) > config.overlap_chars
            THEN overlap_lines
            ELSE OverlapLines(SubSeq(current_chunk_lines, 1, Len(current_chunk_lines) - 1),
                              <<overlap_line>> \o overlap_lines,
                              overlap_size + Len(overlap_line), config)

\* One iteration of the loop over enumerate(lines); i is zero-based.
ChunkLine(b, i, line, path, source, config) ==
    LET line_with_newline == line \o <<NL>>
        line_size == Len(line_with_newline)
        seal == b.current_size + line_size > config.max_chars /\ b.current_chunk_lines # <<>>
        overlap_lines == OverlapLines(b.current_chunk_lines, <<>>, 0, config)
        b1 == IF seal
              THEN [chunks |-> Append(b.chunks,
                                      _create_chunk(rstrip(join(b.current_chunk_lines)), path, source,
                                                    b.current_chunk_start, i - 1, Len(b.chunks))),
                    current_chunk_lines |-> overlap_lines,
                    current_chunk_start |-> i - Len(overlap_lines) + 1,
                    current_size |-> SumSeq([j \in 1..Len(overlap_lines) |-> Len(overlap_lines[j])])]
              ELSE b
    IN [b1 EXCEPT !.current_chunk_lines = Append(b1.current_chunk_lines, line_with_newline),
                  !.current_size = b1.current_size + line_size]

RECURSIVE ChunkLoop(_, _, _, _, _, _)
ChunkLoop(b, i, lines, path, source, config) ==
    IF i >= Len(lines) THEN b
    ELSE ChunkLoop(ChunkLine(b, i, lines[i + 1], path, source, config),
                   i + 1, lines, path, source, config)

\* chunk without the flush of the final buffer.
chunk_without_last(content, path, source, config) ==
    IF content = <<>> \/ IsBlank(content) THEN <<>>
    ELSE ChunkLoop([chunks |-> <<>>, current_chunk_lines |-> <<>>,
                    current_chunk_start |-> 0, current_size |-> 0],
                   0, split(content), path, source, config).chunks

chunk(content, path, source, config) ==
    IF content = <<>> \/ IsBlank(content) THEN <<>>
    ELSE LET lines == split(content)
             b == ChunkLoop([chunks |-> <<>>, current_chunk_lines |-> <<>>,
                             current_chunk_start |-> 0, current_size |-> 0],
                            0, lines, path, source, config)
         IN IF b.current_chunk_lines # <<>>
            THEN Append(b.chunks,
                        _create_chunk(rstrip(join(b.current_chunk_lines)), path, source,
                                      b.current_chunk_start, Len(lines) - 1, Len(b.chunks)))
            ELSE b.chunks

\* The ChunkConfig values the indexer runs with: max_chars and overlap_chars,
\* small enough for the short texts of the model to split.
ChunkConfigs == {[max_chars |-> 4, overlap_chars |-> 2]}

-----------------------------------------------------------------------------
(* SQLiteStorage: a record [files, chunks, embedding_cache] of three tables, *)
(* each a set of rows.  files is keyed by path, chunks by id,               *)
(* embedding_cache by text hash (one provider and model).                   *)

EmptyStorage == [files |-> {}, chunks |-> {}, embedding_cache |-> {}]

\* Queries.UPSERT_FILE: INSERT ... ON CONFLICT(path) DO UPDATE
upsert_file(st, path, source, file_hash, size) ==
    [st EXCEPT !.files = {f \in st.files : f.path # path}
                         \cup {[path |-> path, source |-> source, hash |-> file_hash, size |-> size]}]

\* Queries.DELETE_FILE_BY_SOURCE
delete_file(st, path, source) ==
    [st EXCEPT !.files = {f \in st.files : ~(f.path = path /\ f.source = source)}]

\* Queries.GET_FILE_HASH: WHERE path = ? AND source = ?
get_file_hash(st, path, source) ==
    IF \E f \in st.files : f.path = path /\ f.source = source
    THEN (CHOOSE f \in st.files : f.path = path /\ f.source = source).hash
    ELSE None

get_all_files(st) == st.files

\* Queries.UPSERT_CHUNK: INSERT ... ON CONFLICT(id) DO UPDATE
upsert_chunk(st, record) ==
    [st EXCEPT !.chunks = {c \in st.chunks : c.id # record.id} \cup {record}]

\* A bug: the old chunks of the path are left in place.
delete_chunks_by_path_none(st, path, source) == st

\* Queries.DELETE_CHUNKS_BY_PATH: WHERE path = ? AND source = ?
delete_chunks_by_path(st, path, source) ==
    [st EXCEPT !.chunks = {c \in st.chunks : ~(c.path = path /\ c.source = source)}]

get_chunks_by_path(st, path, source) ==
    {c \in st.chunks : c.path = path /\ c.source = source}

get_chunk_by_id(st, chunk_id) ==
    IF \E c \in st.chunks : c.id = chunk_id
    THEN CHOOSE c \in st.chunks : c.id = chunk_id
    ELSE None

\* Queries.GET_CHUNK_COUNT_BY_SOURCE
get_chunk_count(st, source) == Cardinality({c \in st.chunks : c.source = source})

get_cached_embedding(st, text_hash) ==
    IF \E e \in st.embedding_cache : e.hash = text_hash
    THEN (CHOOSE e \in st.embedding_cache : e.hash = text_hash).embedding
    ELSE None

\* Queries.CACHE_EMBEDDING: INSERT ... ON CONFLICT(provider, model, provider_key, hash) DO UPDATE
cache_embedding(st, text_hash, embedding) ==
    [st EXCEPT !.embedding_cache = {e \in st.embedding_cache : e.hash # text_hash}
                                   \cup {[hash |-> text_hash, embedding |-> embedding]}]

-----------------------------------------------------------------------------
(* MemoryIndexer *)

EmbeddingModel == "model"

\* The vector the embedding provider returns for a text.
embed_text(text) == <<"vec", text>>

_calculate_hash(content) == sha256(content)

IndexResult(file_path, chunks_indexed, chunks_skipped, success) ==
    [file_path |-> file_path, chunks_indexed |-> chunks_indexed,
     chunks_skipped |-> chunks_skipped, success |-> success]

\* The except branch of index_file: the writes made before the exception stay.
IndexFailed(st, file_path, taken) ==
    [st |-> st, result |-> IndexResult(file_path, 0, 0, FALSE), taken |-> taken, batch |-> <<>>]

\* Every position, cached or not.
text_indices_all(st, chunks, i) == [j \in 1..(Len(chunks) - i + 1) |-> i + j - 1]

\* The positions of the chunks whose text has no cached embedding, in order.
RECURSIVE text_indices(_, _, _)
text_indices(st, chunks, i) ==
    IF i > Len(chunks) THEN <<>>
    ELSE (IF get_cached_embedding(st, sha256(chunks[i].text)) = None THEN <<i>> ELSE <<>>)
         \o text_indices(st, chunks, i + 1)

RECURSIVE CacheAll(_, _, _)
CacheAll(st, texts, new_embeddings) ==
    IF texts = <<>> THEN st
    ELSE CacheAll(cache_embedding(st, sha256(Head(texts)), Head(new_embeddings)),
                  Tail(texts), Tail(new_embeddings))

\* Cache lookup, one embed_batch call for the uncached texts, cache write-back,
\* embeddings in chunk order.
_embed_chunks_sync(st, chunks) ==
    LET indices == text_indices(st, chunks, 1)
        texts_to_embed == [j \in 1..Len(indices) |-> chunks[indices[j]].text]
        new_embeddings == [j \in 1..Len(indices) |-> embed_text(texts_to_embed[j])]
        pos(i) == CHOOSE j \in 1..Len(indices) : indices[j] = i
    IN [st |-> CacheAll(st, texts_to_embed, new_embeddings),
        batch |-> texts_to_embed,
        embeddings |-> [i \in 1..Len(chunks) |->
                           IF \E j \in 1..Len(indices) : indices[j] = i
                           THEN new_embeddings[pos(i)]
                           ELSE get_cached_embedding(st, sha256(chunks[i].text))]]

ChunkRecord(c, embedding) ==
    [id |-> c.id, path |-> c.path, source |-> c.source, start_line |-> c.start_line,
     end_line |-> c.end_line, hash |-> c.hash, model |-> EmbeddingModel, text |-> c.text,
     embedding |-> embedding]

\* The first n iterations of the loop that stores the chunks.
RECURSIVE StoreChunks(_, _, _, _)
StoreChunks(st, chunks, embeddings, n) ==
    IF n = 0 THEN st
    ELSE upsert_chunk(StoreChunks(st, chunks, embeddings, n - 1),
                      ChunkRecord(chunks[n], embeddings[n]))

\* The statements of index_file that can raise; "none": no statement raises.
FailPoints == {"none", "get_file_hash", "get_chunk_count", "delete_chunks_by_path",
               "embed_batch", "upsert_chunk", "upsert_file"}

\* A bug: the file record is written before the chunks are stored.
store_index_record_first(st, chunks, embeddings, file_path, source, content_hash, size, fail, stored) ==
    LET st1 == upsert_file(st, file_path, source, content_hash, size)
    IN IF fail = "upsert_file" THEN [st |-> st, ok |-> FALSE]
       ELSE IF fail = "upsert_chunk" /\ chunks # <<>>
       THEN [st |-> StoreChunks(st1, chunks, embeddings, Min(stored, Len(chunks) - 1)), ok |-> FALSE]
       ELSE [st |-> StoreChunks(st1, chunks, embeddings, Len(chunks)), ok |-> TRUE]

\* The end of index_file: every chunk is upserted, then the file record.
\* upsert_chunk raises after `stored` chunks went in, or upsert_file raises.
store_index(st, chunks, embeddings, file_path, source, content_hash, size, fail, stored) ==
    IF fail = "upsert_chunk" /\ chunks # <<>>
    THEN [st |-> StoreChunks(st, chunks, embeddings, Min(stored, Len(chunks) - 1)), ok |-> FALSE]
    ELSE LET st1 == StoreChunks(st, chunks, embeddings, Len(chunks))
         IN IF fail = "upsert_file" THEN [st |-> st1, ok |-> FALSE]
            ELSE [st |-> upsert_file(st1, file_path, source, content_hash, size), ok |-> TRUE]

\* index_file(file_path, content, source) on storage st, the statement `fail`
\* raising.  Returns the storage left behind (writes made before an exception
\* stay), the IndexResult, the branch taken ("check": it failed before the
\* hash comparison was decided) and the batch sent to the embedding provider.
index_file(st, file_path, content, source, config, fail, stored) ==
    LET content_hash == _calculate_hash(content)
        stored_hash == get_file_hash(st, file_path, source)
        st1 == delete_chunks_by_path(st, file_path, source)
        chunks == chunk(content, file_path, source, config)
        e == _embed_chunks_sync(st1, chunks)
        w == IF chunks = <<>>
             THEN store_index(st1, <<>>, <<>>, file_path, source, content_hash,
                              Len(content), fail, stored)
             ELSE store_index(e.st, chunks, e.embeddings, file_path, source, content_hash,
                              Len(content), fail, stored)
    IN IF fail = "get_file_hash" THEN IndexFailed(st, file_path, "check")
       ELSE IF stored_hash = content_hash
       THEN IF fail = "get_chunk_count" THEN IndexFailed(st, file_path, "check")
            ELSE [st |-> st,
                  result |-> IndexResult(file_path, 0, get_chunk_count(st, source), TRUE),
                  taken |-> "unchanged", batch |-> <<>>]
       ELSE IF fail = "delete_chunks_by_path" THEN IndexFailed(st, file_path, "replace")
       ELSE IF chunks # <<>> /\ fail = "embed_batch" /\ e.batch # <<>>
       THEN [IndexFailed(st1, file_path, "replace") EXCEPT !.batch = e.batch]
       ELSE IF ~w.ok THEN IndexFailed(w.st, file_path, "replace")
       ELSE [st |-> w.st,
             result |-> IndexResult(file_path, Len(chunks), 0, TRUE),
             taken |-> "replace",
             batch |-> IF chunks = <<>> THEN <<>> ELSE e.batch]

\* delete_index(path, source)
delete_index(st, path, source) == delete_file(delete_chunks_by_path(st, path, source), path, source)

-----------------------------------------------------------------------------
(* SQLiteStorage search and MemorySearcher (storage.py, searcher.py).       *)
(* Scores and weights are in tenths, merged scores in hundredths.           *)

\* HybridConfig(): 0.7 + 0.3 == 1.0, so __post_init__ leaves the weights alone
HybridConfig == [vector_weight |-> 7, text_weight |-> 3, candidate_multiplier |-> 2,
                 min_score |-> 50]

\* query.split(), and the FTS5 tokens of a chunk text
Words(text) == {w \in Range(split(text)) : w # <<>>}

\* The provider's embed_query: the same embedding as embed_batch gives the text
embed_query(query) == embed_text(query)

\* dot_product / (query_norm * embedding_norm): 1.0 for the embeddings of one
\* text, 0.5 for those of two texts that share a word, else 0.
cosine(u, v) ==
    IF u = v THEN 10
    ELSE IF Words(u[2]) \cap Words(v[2]) # {} THEN 5
    ELSE 0

\* results.sort(key=score, reverse=True) over the rows of a cursor
RECURSIVE by_score(_)
by_score(hits) ==
    IF hits = {} THEN <<>>
    ELSE LET top == CHOOSE h \in hits : \A g \in hits : g.score <= h.score
         IN <<top>> \o by_score(hits \ {top})

\* _vector_ready is never set (nothing calls _ensure_vector_table), so
\* search_vectors is the manual cosine search.
_search_vectors_manual(st, query_vec, limit, source_filter) ==
    LET rows == {c \in st.chunks : /\ source_filter # {} => c.source \in source_filter
                                   /\ c.embedding # None}
    IN Take(by_score({[chunk_id |-> c.id, score |-> cosine(query_vec, c.embedding)] :
                        c \in rows}), limit)

search_vectors(st, query_vec, limit, source_filter) ==
    _search_vectors_manual(st, query_vec, limit, source_filter)

\* The bm25 ranks the FTS engine may give a row (0 or negative)
FtsRanks == {0, -1}

\* score = 1.0 / (1.0 + abs(rank))
fts_score(rank) == 10 \div (1 + (IF rank < 0 THEN 0 - rank ELSE rank))

\* ORDER BY rank
RECURSIVE by_rank(_)
by_rank(rows) ==
    IF rows = {} THEN <<>>
    ELSE LET first == CHOOSE r \in rows : \A q \in rows : r.rank <= q.rank
         IN <<first>> \o by_rank(rows \ {first})

\* The rows of chunks_fts (kept equal to chunks by the triggers) that match
\* every term of the query
fts_matches(st, query) == {c \in st.chunks : Words(query) \subseteq Words(c.text)}

\* search_fts; rank: the bm25 rank of each matching chunk id
search_fts(st, query, limit, source_filter, rank) ==
    LET matches == {c \in fts_matches(st, query) :
                       Cardinality(source_filter) = 1 => c.source \in source_filter}
        rows == Take(by_rank({[chunk_id |-> c.id, rank |-> rank[c.id]] : c \in matches}), limit)
        results == [i \in 1..Len(rows) |->
                      [chunk_id |-> rows[i].chunk_id, score |-> fts_score(rows[i].rank)]]
        InFilter(r) == LET c == get_chunk_by_id(st, r.chunk_id)
                       IN c # None /\ c.source \in source_filter
    IN IF Cardinality(source_filter) > 1
       THEN Take(SelectSeq(results, InFilter), limit)
       ELSE results

SearchResult(chunk_id, path, source, text, snippet, score, start_line, end_line) ==
    [chunk_id |-> chunk_id, path |-> path, source |-> source, text |-> text,
     snippet |-> snippet, score |-> score, start_line |-> start_line, end_line |-> end_line]

HasKey(result_map, chunk_id) == \E i \in 1..Len(result_map) : result_map[i].chunk_id = chunk_id

KeyIndex(result_map, chunk_id) ==
    CHOOSE i \in 1..Len(result_map) : result_map[i].chunk_id = chunk_id

\* _merge_results: result_map after the loop over the vector hits (a dict: a
\* key stays where it was first inserted)
RECURSIVE add_vector_results(_, _)
add_vector_results(result_map, vector_results) ==
    IF vector_results = <<>> THEN result_map
    ELSE LET vr == Head(vector_results)
             item == [chunk_id |-> vr.chunk_id, vector_score |-> vr.score, text_score |-> 0]
         IN add_vector_results(
                IF HasKey(result_map, vr.chunk_id)
                THEN [result_map EXCEPT ![KeyIndex(result_map, vr.chunk_id)] = item]
                ELSE Append(result_map, item),
                Tail(vector_results))

\* _merge_results: result_map after the loop over the keyword hits
RECURSIVE add_keyword_results(_, _)
add_keyword_results(result_map, keyword_results) ==
    IF keyword_results = <<>> THEN result_map
    ELSE LET kr == Head(keyword_results)
         IN add_keyword_results(
                IF HasKey(result_map, kr.chunk_id)
                THEN [result_map EXCEPT ![KeyIndex(result_map, kr.chunk_id)].text_score = kr.score]
                ELSE Append(result_map, [chunk_id |-> kr.chunk_id, vector_score |-> 0,
                                         text_score |-> kr.score]),
                Tail(keyword_results))

\* A bug: the keyword score is left out of the weighted score.
weighted_score_vector_only(item, config) == config.vector_weight * item.vector_score

weighted_score(item, config) ==
    config.vector_weight * item.vector_score + config.text_weight * item.text_score

\* merged.sort(key=lambda x: x.score, reverse=True): stable, so results of
\* equal score stay in the order of result_map
RECURSIVE sort_by_score(_)
sort_by_score(results) ==
    IF results = <<>> THEN <<>>
    ELSE LET rest == sort_by_score(Tail(results))
             r == Head(results)
             Higher(x) == x.score > r.score
             NotHigher(x) == x.score <= r.score
         IN SelectSeq(rest, Higher) \o <<r>> \o SelectSeq(rest, NotHigher)

_merge_results(vector_results, keyword_results, config) ==
    LET result_map == add_keyword_results(add_vector_results(<<>>, vector_results),
                                          keyword_results)
    IN sort_by_score([i \in 1..Len(result_map) |->
                        SearchResult(result_map[i].chunk_id, "", "", <<>>, <<>>,
                                     weighted_score(result_map[i], config), 0, 0)])

SPACE == 4

SnippetLen == 200

\* chunk.text[:200].replace('\n', ' '), "..." (5, 5, 5) added to a longer text
snippet_of(text) ==
    [i \in 1..Min(Len(text), SnippetLen) |-> IF text[i] = NL THEN SPACE ELSE text[i]]
        \o (IF Len(text) > SnippetLen THEN <<5, 5, 5>> ELSE <<>>)

\* _enrich_results, one result: what it appends to enriched
enrich(st, result) ==
    LET c == get_chunk_by_id(st, result.chunk_id)
    IN IF c # None
       THEN <<SearchResult(result.chunk_id, c.path, c.source, c.text, snippet_of(c.text),
                           result.score, c.start_line, c.end_line)>>
       ELSE <<result>>

\* search(): min_score = min_score or self.config.min_score (the caller's
\* min_score: <<>> for None, <<m>> for m)
effective_min_score(min_score, config) ==
    IF min_score = <<>> \/ min_score[1] = 0 THEN config.min_score ELSE min_score[1]

\* search(): filtered = [r for r in merged if r.score >= min_score][:max_results]
filter_results(merged, min_score, max_results) ==
    LET Keep(r) == r.score >= min_score
    IN Take(SelectSeq(merged, Keep), max_results)

NoSearch == [pc |-> "idle"]

NoMerge == [vector_results |-> <<>>, keyword_results |-> <<>>, out |-> <<>>, done |-> TRUE]

-----------------------------------------------------------------------------
(* MemoryManager *)

\* A file that does not exist (no text holds a negative character).
Absent == <<-1>>

HDR == 3

LongTermFile == "MEMORY.md"

\* memory/*.md in directory order
DailyFiles == <<"2026-11-01.md">>

Today == "2026-11-01.md"

MemoryFiles == {LongTermFile} \cup {DailyFiles[i] : i \in 1..Len(DailyFiles)}

\* The header _ensure_memory_files writes to MEMORY.md, and _create_short_term_header:
\* a heading line and a blank line.
LongTermHeader == <<HDR, NL, NL>>

ShortTermHeader == <<HDR, NL, NL>>

\* f"\n### {timestamp}\n\n{content}\n"
ShortTermEntry(content) == <<NL, HDR, NL, NL>> \o content \o <<NL>>

\* f"\n## Entry: {timestamp}\n\n" + f"{content}\n" (no summary)
LongTermEntry(content) == <<NL, HDR, NL, NL>> \o content \o <<NL>>

\* self.memory_dir.glob("*.md")
glob(d) == LET Exists(f) == d[f] # Absent IN SelectSeq(DailyFiles, Exists)

\* index_memory_file: read the file, index it under source "memory"; a failed
\* read is a failed IndexResult.
index_memory_file(st, d, abs_path, cfg, fail) ==
    IF d[abs_path] = Absent \/ fail = "read_text"
    THEN IndexFailed(st, abs_path, "read")
    ELSE index_file(st, abs_path, d[abs_path], "memory", cfg, fail, 0)

\* A bug: a file counts as synced whether or not its indexing succeeded.
sync_account_all(acc, name, result) ==
    [acc EXCEPT !.files_synced = @ + 1,
                !.chunks_indexed = @ + result.chunks_indexed,
                !.errors = IF result.success THEN @ ELSE Append(@, name)]

\* sync(): what one IndexResult adds to the counters and to errors (an entry
\* f"{name}: {error}", kept as the name).
sync_account(acc, name, result) ==
    IF result.success
    THEN [acc EXCEPT !.files_synced = @ + 1, !.chunks_indexed = @ + result.chunks_indexed]
    ELSE [acc EXCEPT !.errors = Append(@, name)]

\* A bug: the sync runs only when the dirty flag is set.
sync_before_search_dirty_only(is_dirty, on_search) == is_dirty

\* search(): if self._dirty or self.sync_config.sync.on_search
sync_before_search(is_dirty, on_search) == is_dirty \/ on_search

\* sync(): the paths whose index the reconciliation removes: rows of db_files
\* with source "memory" whose path is not in current_files.
removed_by_sync(db_files, d) ==
    LET current_files == {LongTermFile} \cup Range(glob(d))
    IN {f[1] : f \in {g \in db_files : g[2] = "memory" /\ g[1] \notin current_files}}

RECURSIVE remove_all(_, _)
remove_all(st, paths) ==
    IF paths = {} THEN st
    ELSE LET path == CHOOSE q \in paths : TRUE
         IN remove_all(delete_file(delete_chunks_by_path(st, path, "memory"), path, "memory"),
                       paths \ {path})

Idle == [pc |-> "idle"]

\* The statements that raise during a sync of the model.
SyncFailPoints == {"none", "get_file_hash", "embed_batch"}

\* Texts appended by append_to_short_term / promote_to_long_term ("a"), and
\* written by an editor ("bb\nbb")
AppendTexts == {<<1>>}

EditTexts == {<<2, 2, NL, 2, 2>>}

MaxFileLen == 9

\* A write to a memory file, seen by the watcher when it runs.
Touch(f) ==
    watcher' = IF watcher.running THEN [watcher EXCEPT !.pending = @ \cup {f}] ELSE watcher

\* The user edits, creates or deletes a memory file outside the manager.
ExternalEdit(f, text) ==
    /\ disk[f] # text
    /\ disk' = [disk EXCEPT ![f] = text]
    /\ Touch(f)
    /\ mgr' = IF mgr.pc \in {"sync_long", "sync_daily", "sync_reconcile"} /\ text # Absent
              THEN [mgr EXCEPT !.gone = @ \ {f}]
              ELSE mgr
    /\ UNCHANGED <<storage, chunk_config, sync_config, dirty, owed>>

\* _on_file_changed, called from the watcher's thread.
WatcherCallback(f) ==
    /\ f \in watcher.pending
    /\ watcher' = [watcher EXCEPT !.pending = @ \ {f}]
    /\ dirty' = TRUE
    /\ owed' = owed \cup {f}
    /\ UNCHANGED <<storage, chunk_config, sync_config, disk, mgr>>

\* initialize(): _ensure_memory_files, then the initial sync (the watcher starts after it).
Initialize ==
    /\ mgr.pc = "new"
    /\ disk' = [f \in MemoryFiles |->
                  IF disk[f] # Absent THEN disk[f]
                  ELSE IF f = LongTermFile THEN LongTermHeader
                  ELSE IF f = Today THEN ShortTermHeader
                  ELSE Absent]
    /\ mgr' = [pc |-> "sync", caller |-> "initialize", force |-> FALSE]
    /\ UNCHANGED <<storage, chunk_config, sync_config, dirty, watcher, owed>>

\* append_to_short_term(content, date)
AppendToShortTerm(f, content) ==
    /\ mgr.pc = "idle"
    /\ LET old == IF disk[f] = Absent THEN ShortTermHeader ELSE disk[f]
       IN /\ Len(old) + Len(ShortTermEntry(content)) <= MaxFileLen
          /\ disk' = [disk EXCEPT ![f] = old \o ShortTermEntry(content)]
    /\ dirty' = TRUE
    /\ Touch(f)
    /\ UNCHANGED <<storage, chunk_config, sync_config, mgr, owed>>

\* promote_to_long_term(content): open(..., 'a') creates the file if need be
PromoteToLongTerm(content) ==
    /\ mgr.pc = "idle"
    /\ LET old == IF disk[LongTermFile] = Absent THEN <<>> ELSE disk[LongTermFile]
       IN /\ Len(old) + Len(LongTermEntry(content)) <= MaxFileLen
          /\ disk' = [disk EXCEPT ![LongTermFile] = old \o LongTermEntry(content)]
    /\ dirty' = TRUE
    /\ Touch(LongTermFile)
    /\ UNCHANGED <<storage, chunk_config, sync_config, mgr, owed>>

\* An explicit sync() call
SyncCall(force) ==
    /\ mgr.pc = "idle"
    /\ mgr' = [pc |-> "sync", caller |-> "sync", force |-> force]
    /\ UNCHANGED <<storage, chunk_config, sync_config, disk, dirty, watcher, owed>>

\* search(): sync first if dirty or configured, else go to the Searcher
SearchCall ==
    /\ mgr.pc = "idle"
    /\ mgr' = IF sync_before_search(dirty, sync_config.on_search)
              THEN [pc |-> "sync", caller |-> "search", force |-> FALSE]
              ELSE [pc |-> "query", synced |-> FALSE]
    /\ UNCHANGED <<storage, chunk_config, sync_config, disk, dirty, watcher, owed>>

\* sync(): the counters start at zero; db_files = get_all_files().
\* log: the IndexResult of every index_memory_file call of this sync;
\* gone: the files indexed under "memory" that are not on disk during this sync.
SyncStart ==
    /\ mgr.pc = "sync"
    /\ mgr' = [pc |-> "sync_long", caller |-> mgr.caller, force |-> mgr.force,
               db_files |-> {<<f.path, f.source>> : f \in get_all_files(storage)}, todo |-> <<>>,
               files_synced |-> 0, files_removed |-> 0, chunks_indexed |-> 0, errors |-> <<>>,
               log |-> <<>>,
               gone |-> {f.path : f \in {g \in storage.files :
                                           g.source = "memory" /\ disk[g.path] = Absent}}]
    /\ UNCHANGED <<storage, chunk_config, sync_config, disk, dirty, watcher, owed>>

\* One index_memory_file call of the sync, its result accounted.
SyncIndex(f, fail, next_pc, todo) ==
    LET r == index_memory_file(storage, disk, f, chunk_config, fail)
        acc == sync_account(mgr, f, r.result)
    IN /\ storage' = r.st
       /\ mgr' = [acc EXCEPT !.log = Append(@, [name |-> f, result |-> r.result]),
                             !.pc = next_pc, !.todo = todo]
       /\ owed' = owed \ {f}

\* sync(): index MEMORY.md if it exists, then list the daily files
SyncLongTerm(fail) ==
    /\ mgr.pc = "sync_long"
    /\ IF disk[LongTermFile] # Absent
       THEN SyncIndex(LongTermFile, fail, "sync_daily", glob(disk))
       ELSE /\ fail = "none"
            /\ mgr' = [mgr EXCEPT !.pc = "sync_daily", !.todo = glob(disk)]
            /\ UNCHANGED <<storage, owed>>
    /\ UNCHANGED <<chunk_config, sync_config, disk, dirty, watcher>>

\* sync(): index the next daily file
SyncDaily(fail) ==
    /\ mgr.pc = "sync_daily"
    /\ mgr.todo # <<>>
    /\ SyncIndex(Head(mgr.todo), fail, "sync_daily", Tail(mgr.todo))
    /\ UNCHANGED <<chunk_config, sync_config, disk, dirty, watcher>>

\* sync(): remove the index of the files that are gone from the disk
SyncReconcile ==
    /\ mgr.pc = "sync_daily"
    /\ mgr.todo = <<>>
    /\ LET removed == removed_by_sync(mgr.db_files, disk)
       IN /\ storage' = remove_all(storage, removed)
          /\ mgr' = [mgr EXCEPT !.pc = "sync_return", !.files_removed = Cardinality(removed)]
          /\ owed' = {f \in owed : disk[f] # Absent}
    /\ UNCHANGED <<chunk_config, sync_config, disk, dirty, watcher>>

\* sync(): clear the dirty flag and return the SyncResult (to search, which
\* goes on to the Searcher; initialize starts the watcher)
SyncReturn ==
    /\ mgr.pc = "sync_return"
    /\ dirty' = FALSE
    /\ mgr' = IF mgr.caller = "search" THEN [pc |-> "query", synced |-> TRUE] ELSE Idle
    /\ watcher' = IF mgr.caller = "initialize" /\ sync_config.watch
                  THEN [running |-> TRUE, pending |-> {}]
                  ELSE watcher
    /\ UNCHANGED <<storage, chunk_config, sync_config, disk, owed>>

\* search(): the Searcher is queried and the call returns
SearchQuery ==
    /\ mgr.pc = "query"
    /\ mgr' = Idle
    /\ UNCHANGED <<storage, chunk_config, sync_config, disk, dirty, watcher, owed>>

\* Manager specification: the manager's operations called one after another
\* (no watcher), the memory files edited between the calls, any file's
\* indexing failing.
ManagerConfigs == [on_search : BOOLEAN, watch : {FALSE}]

InitManager ==
    /\ connections = {}
    /\ threads = <<>>
    /\ storage = EmptyStorage
    /\ chunk_config \in ChunkConfigs
    /\ last_call = [op |-> "none"]
    /\ sync_config \in ManagerConfigs
    /\ disk \in [MemoryFiles -> {Absent}]
    /\ dirty = FALSE
    /\ mgr = [pc |-> "new"]
    /\ watcher = [running |-> FALSE, pending |-> {}]
    /\ owed = {}
    /\ srch = NoSearch
    /\ merge_call = NoMerge

NextManager ==
    /\ \/ Initialize
       \/ /\ mgr.pc \in {"new", "idle"}
          /\ \E f \in MemoryFiles, text \in EditTexts \cup {Absent} : ExternalEdit(f, text)
       \/ \E content \in AppendTexts : AppendToShortTerm(Today, content)
       \/ \E content \in AppendTexts : PromoteToLongTerm(content)
       \/ \E force \in BOOLEAN : SyncCall(force)
       \/ SearchCall
       \/ SyncStart
       \/ \E fail \in SyncFailPoints : SyncLongTerm(fail)
       \/ \E fail \in SyncFailPoints : SyncDaily(fail)
       \/ SyncReconcile
       \/ SyncReturn
       \/ SearchQuery
    /\ UNCHANGED indexerVars
    /\ UNCHANGED searchVars
    /\ UNCHANGED connVars

SpecManager == InitManager /\ [][NextManager]_vars

\* Watcher specification: sync.on_search = false with the watcher enabled; the
\* daily file is edited at any moment, the callback runs in the watcher's thread
\* between any two steps of the manager.
EditedFiles == {Today}

InitWatch ==
    /\ connections = {}
    /\ threads = <<>>
    /\ storage = EmptyStorage
    /\ chunk_config \in ChunkConfigs
    /\ last_call = [op |-> "none"]
    /\ sync_config = [on_search |-> FALSE, watch |-> TRUE]
    /\ disk \in [MemoryFiles -> {Absent}]
    /\ dirty = FALSE
    /\ mgr = [pc |-> "new"]
    /\ watcher = [running |-> FALSE, pending |-> {}]
    /\ owed = {}
    /\ srch = NoSearch
    /\ merge_call = NoMerge

NextWatch ==
    /\ \/ Initialize
       \/ \E f \in EditedFiles, text \in EditTexts \cup {Absent} : ExternalEdit(f, text)
       \/ \E f \in EditedFiles : WatcherCallback(f)
       \/ \E content \in AppendTexts : AppendToShortTerm(Today, content)
       \/ SyncCall(FALSE)
       \/ SearchCall
       \/ SyncStart
       \/ SyncLongTerm("none")
       \/ SyncDaily("none")
       \/ SyncReconcile
       \/ SyncReturn
       \/ SearchQuery
    /\ UNCHANGED indexerVars
    /\ UNCHANGED searchVars
    /\ UNCHANGED connVars

SpecWatch == InitWatch /\ [][NextWatch]_vars

\* Close specification: the manager used by several threads and closed by one
\* of them.  The storage keeps one connection per thread (threading.local).
Threads == {"main", "worker"}

\* SQLiteStorage._get_connection, called by thread t in every storage method
_get_connection(conns, t) == conns \cup {t}

\* SQLiteStorage.close, called by thread t: self._local is the caller's
storage_close(conns, t) == conns \ {t}

\* stats() called by thread t: storage.get_stats() and get_db_size()
Stats(t) ==
    /\ mgr.pc = "idle"
    /\ connections' = _get_connection(connections, t)
    /\ UNCHANGED <<storage, chunk_config>>
    /\ UNCHANGED managerVars

\* close() called by thread t: _stop_watcher(), then storage.close()
Close(t) ==
    /\ mgr.pc = "idle"
    /\ watcher' = [watcher EXCEPT !.running = FALSE]
    /\ connections' = storage_close(connections, t)
    /\ mgr' = [pc |-> "closed", by |-> t]
    /\ UNCHANGED <<storage, chunk_config, sync_config, disk, dirty, owed>>

\* initialize() and sync() run in the main thread; initialize opens its
\* connection (storage.initialize()).
NextClose ==
    /\ \/ Initialize /\ connections' = _get_connection(connections, "main")
       \/ /\ \/ \E f \in EditedFiles, text \in EditTexts \cup {Absent} : ExternalEdit(f, text)
             \/ \E f \in EditedFiles : WatcherCallback(f)
             \/ \E content \in AppendTexts : AppendToShortTerm(Today, content)
             \/ SyncCall(FALSE)
             \/ SyncStart
             \/ SyncLongTerm("none")
             \/ SyncDaily("none")
             \/ SyncReconcile
             \/ SyncReturn
          /\ UNCHANGED connVars
       \/ \E t \in Threads : Stats(t)
       \/ \E t \in Threads : Close(t)
    /\ UNCHANGED threads
    /\ UNCHANGED indexerVars
    /\ UNCHANGED searchVars

SpecClose == InitWatch /\ [][NextClose]_vars

-----------------------------------------------------------------------------
(* Compaction specification: compact_short_term called again and again on a *)
(* memory directory of dated and undated files, any file operation failing. *)
(* Times are in half days since 2026-10-01 00:00.                           *)

\* memory/*.md in directory order: an old file, today's file, an undated file
CompactFiles == <<"2026-10-01.md", "2026-11-01.md", "notes.md">>

\* datetime.strptime(memory_file.stem, "%Y-%m-%d") of the names that parse
FileDates == ("2026-10-01.md" :> 0) @@ ("2026-11-01.md" :> 62)

\* datetime.now(): noon of 2026-11-01
Now == 63

DaysToKeep == {0, 7}

\* "purge": a strategy that is none of the three
Strategies == {"summarize", "archive", "delete", "purge"}

\* archive_dir / memory_file.name
ArchivePath(name) == "archive/" \o name

CompactPaths ==
    {LongTermFile} \cup Range(CompactFiles) \cup {ArchivePath(f) : f \in Range(CompactFiles)}

\* What a daily file holds: its header and a line of its own
CompactContent(name) ==
    ShortTermHeader \o <<(CHOOSE i \in 1..Len(CompactFiles) : CompactFiles[i] = name)>>

\* timedelta(days=days_to_keep)
timedelta(days) == 2 * days

\* file_date < cutoff_date; a name that does not parse raises ValueError
IsOld(name, days_to_keep) ==
    name \in DOMAIN FileDates /\ FileDates[name] < Now - timedelta(days_to_keep)

SummaryLen == 500

\* content[:500].replace('\n', ' ')
summary_of(content) ==
    [i \in 1..Min(Len(content), SummaryLen) |-> IF content[i] = NL THEN SPACE ELSE content[i]]

\* promote_to_long_term(f"Summary of {date}:\n\n{summary}", f"Daily summary
\* for {date}"): the entry appended to MEMORY.md.  100 + date stands for the
\* "**Summary:** ..." line, 200 + date for the "Summary of ...:" line.
SummaryEntry(name, content) ==
    <<NL, HDR, NL, NL>> \o <<100 + FileDates[name], NL, NL>>
        \o <<200 + FileDates[name], NL, NL>> \o summary_of(content) \o <<NL>>

\* A bug: a summarized file is also removed.
compact_apply_summarize_unlinks(d, name, strategy) ==
    LET old == IF d[LongTermFile] = Absent THEN <<>> ELSE d[LongTermFile]
    IN IF strategy = "summarize"
       THEN [d EXCEPT ![LongTermFile] = old \o SummaryEntry(name, d[name]), ![name] = Absent]
       ELSE IF strategy = "archive"
       THEN [d EXCEPT ![ArchivePath(name)] = d[name], ![name] = Absent]
       ELSE [d EXCEPT ![name] = Absent]

\* compact_short_term: what the strategy does to one old file
compact_apply(d, name, strategy) ==
    LET old == IF d[LongTermFile] = Absent THEN <<>> ELSE d[LongTermFile]
    IN IF strategy = "summarize"
       THEN [d EXCEPT ![LongTermFile] = old \o SummaryEntry(name, d[name])]
       ELSE IF strategy = "archive"
       THEN [d EXCEPT ![ArchivePath(name)] = d[name], ![name] = Absent]
       ELSE [d EXCEPT ![name] = Absent]

MaxLongTermLen == 30

\* compact_short_term(days_to_keep, strategy): the counters start at zero.
\* log: what was seen to happen to each file of the glob.
CompactCall(days_to_keep, strategy) ==
    /\ mgr.pc = "idle"
    /\ disk[LongTermFile] = Absent \/ Len(disk[LongTermFile]) <= MaxLongTermLen
    /\ mgr' = [pc |-> "compact", days_to_keep |-> days_to_keep, strategy |-> strategy,
               todo |-> LET Exists(f) == disk[f] # Absent IN SelectSeq(CompactFiles, Exists),
               files_compacted |-> 0, files_archived |-> 0, summaries_generated |-> 0,
               log |-> <<>>]
    /\ UNCHANGED <<storage, chunk_config, sync_config, disk, dirty, watcher, owed>>

\* One iteration of the loop; fail: the file operation (read_text, the append
\* to MEMORY.md, rename, unlink) raises and the file is skipped
CompactFile(fail) ==
    /\ mgr.pc = "compact"
    /\ mgr.todo # <<>>
    /\ LET name == Head(mgr.todo)
           acts == IsOld(name, mgr.days_to_keep) /\ ~fail
           d == IF acts THEN compact_apply(disk, name, mgr.strategy) ELSE disk
           counted == IF acts THEN 1 ELSE 0
       IN /\ disk' = d
          /\ dirty' = (dirty \/ (acts /\ mgr.strategy = "summarize"))
          /\ mgr' = [mgr EXCEPT
                       !.todo = Tail(@),
                       !.files_compacted = @ + counted,
                       !.files_archived = @ + (IF acts /\ mgr.strategy = "archive" THEN 1 ELSE 0),
                       !.summaries_generated =
                           @ + (IF acts /\ mgr.strategy = "summarize" THEN 1 ELSE 0),
                       !.log = Append(@,
                           [name |-> name, failed |-> fail, counted |-> counted,
                            promoted |-> d[LongTermFile] # disk[LongTermFile],
                            archived |-> d[name] = Absent
                                         /\ d[ArchivePath(name)] # disk[ArchivePath(name)],
                            deleted |-> d[name] = Absent
                                        /\ d[ArchivePath(name)] = disk[ArchivePath(name)],
                            kept |-> d[name] = disk[name]])]
    /\ UNCHANGED <<storage, chunk_config, sync_config, watcher, owed>>

\* compact_short_term returns the CompactResult
CompactReturn ==
    /\ mgr.pc = "compact"
    /\ mgr.todo = <<>>
    /\ mgr' = [mgr EXCEPT !.pc = "compact_return"]
    /\ UNCHANGED <<storage, chunk_config, sync_config, disk, dirty, watcher, owed>>

\* The caller has the CompactResult
CompactDone ==
    /\ mgr.pc = "compact_return"
    /\ mgr' = Idle
    /\ UNCHANGED <<storage, chunk_config, sync_config, disk, dirty, watcher, owed>>

InitCompact ==
    /\ connections = {}
    /\ threads = <<>>
    /\ storage = EmptyStorage
    /\ chunk_config \in ChunkConfigs
    /\ last_call = [op |-> "none"]
    /\ sync_config = [on_search |-> TRUE, watch |-> FALSE]
    /\ disk \in {d \in [CompactPaths -> {Absent, LongTermHeader}
                                          \cup {CompactContent(f) : f \in Range(CompactFiles)}] :
                   /\ d[LongTermFile] = LongTermHeader
                   /\ \A f \in Range(CompactFiles) :
                         /\ d[f] \in {Absent, CompactContent(f)}
                         /\ d[ArchivePath(f)] = Absent}
    /\ dirty = FALSE
    /\ mgr = Idle
    /\ watcher = [running |-> FALSE, pending |-> {}]
    /\ owed = {}
    /\ srch = NoSearch
    /\ merge_call = NoMerge

NextCompact ==
    /\ \/ \E days_to_keep \in DaysToKeep, strategy \in Strategies :
             CompactCall(days_to_keep, strategy)
       \/ \E fail \in BOOLEAN : CompactFile(fail)
       \/ CompactReturn
       \/ CompactDone
    /\ UNCHANGED indexerVars
    /\ UNCHANGED searchVars
    /\ UNCHANGED connVars

SpecCompact == InitCompact /\ [][NextCompact]_vars

-----------------------------------------------------------------------------
(* Indexer specification: index_file and delete_index called one after     *)
(* another on a few paths, sources and contents, any statement failing.     *)

\* The (path, source) pairs indexed: two files of one source.
IndexTargets == {<<"a.md", "docs">>, <<"b.md", "docs">>}

\* "a", "b\nbb" (two chunks under ChunkConfigs) and "\n" (blank)
IndexContents == {<<1>>, <<2, NL, 2, 2>>, <<NL>>}

MaxStored == 1

\* A text whose embedding an earlier run of the same provider and model left in
\* the cache (the second chunk of the two-chunk content), and that vector: the
\* provider is not assumed to return the same vector for the same text twice.
EarlierText == <<2, NL, 2, 2>>
EarlierVector == <<"vec", EarlierText, "earlier">>

NoCall == [op |-> "none"]

\* index_file returns.  last_call records the call and its result;
\* after_success: the call before it was a successful index_file of the same
\* path and source with another content.
IndexFile(path, content, source, fail, stored) ==
    LET r == index_file(storage, path, content, source, chunk_config, fail, stored)
    IN /\ storage' = r.st
       /\ last_call' = [op |-> "index_file", path |-> path, source |-> source,
                        content |-> content, result |-> r.result, taken |-> r.taken,
                        batch |-> r.batch,
                        after_success |-> /\ last_call.op = "index_file"
                                          /\ last_call.path = path
                                          /\ last_call.source = source
                                          /\ last_call.content # content
                                          /\ last_call.result.success]
       /\ UNCHANGED chunk_config
       /\ UNCHANGED managerVars

DeleteIndex(path, source) ==
    /\ storage' = delete_index(storage, path, source)
    /\ last_call' = NoCall
    /\ UNCHANGED chunk_config
    /\ UNCHANGED managerVars

InitIndexer ==
    /\ connections = {}
    /\ threads = <<>>
    /\ storage \in {EmptyStorage,
                    cache_embedding(EmptyStorage, sha256(EarlierText), EarlierVector)}
    /\ chunk_config \in ChunkConfigs
    /\ last_call = NoCall
    /\ sync_config = [on_search |-> TRUE, watch |-> FALSE]
    /\ disk = [f \in MemoryFiles |-> Absent]
    /\ dirty = FALSE
    /\ mgr = [pc |-> "new"]
    /\ watcher = [running |-> FALSE, pending |-> {}]
    /\ owed = {}
    /\ srch = NoSearch
    /\ merge_call = NoMerge

NextIndexer ==
    /\ \/ \E t \in IndexTargets, content \in IndexContents,
             fail \in FailPoints, stored \in 0..MaxStored :
             /\ (fail # "upsert_chunk" => stored = 0)
             /\ IndexFile(t[1], content, t[2], fail, stored)
       \/ \E t \in IndexTargets : DeleteIndex(t[1], t[2])
    /\ UNCHANGED searchVars
    /\ UNCHANGED connVars

SpecIndexer == InitIndexer /\ [][NextIndexer]_vars

\* Vector specification: the storage with the native vector index.  storage
\* has three more fields: _vector_ready, vec_present (the chunks_vec table
\* exists) and chunks_vec (the chunk ids of its rows).
VectorStorage ==
    [files |-> {}, chunks |-> {}, embedding_cache |-> {},
     _vector_ready |-> FALSE, vec_present |-> FALSE, chunks_vec |-> {}]

\* _ensure_vector_table(dimensions); ok: CREATE VIRTUAL TABLE IF NOT EXISTS
\* succeeds (the extension is loaded)
_ensure_vector_table(st, ok) ==
    IF st._vector_ready THEN st
    ELSE IF ok THEN [st EXCEPT !._vector_ready = TRUE, !.vec_present = TRUE]
    ELSE [st EXCEPT !._vector_ready = FALSE]

\* upsert_chunk with its mirror: _upsert_vector if the table is ready and the
\* chunk has an embedding
upsert_chunk_vector(st, record) ==
    LET st1 == upsert_chunk(st, record)
    IN IF st._vector_ready /\ record.embedding # None
       THEN [st1 EXCEPT !.chunks_vec = @ \cup {record.id}]
       ELSE st1

\* delete_chunks_by_path with its mirror: DELETE FROM chunks_vec WHERE
\* chunk_id IN (the ids of the path) if the table is ready
delete_chunks_by_path_vector(st, path, source) ==
    LET chunk_ids == {c.id : c \in get_chunks_by_path(st, path, source)}
        st1 == delete_chunks_by_path(st, path, source)
    IN IF st._vector_ready /\ chunk_ids # {}
       THEN [st1 EXCEPT !.chunks_vec = @ \ chunk_ids]
       ELSE st1

\* The chunk records written: one chunk per text and path, with or without
\* an embedding
VectorRecords ==
    {ChunkRecord(_create_chunk(t, path, "docs", 0, 0, 0), e) :
        t \in {<<1>>, <<2>>}, path \in {"a.md", "b.md"}, e \in {None, <<"vec">>}}

EnsureVectorTable(ok) ==
    /\ storage' = _ensure_vector_table(storage, ok)
    /\ UNCHANGED <<chunk_config, last_call>>

UpsertChunk(record) ==
    /\ storage' = upsert_chunk_vector(storage, record)
    /\ UNCHANGED <<chunk_config, last_call>>

DeleteChunksByPath(path, source) ==
    /\ storage' = delete_chunks_by_path_vector(storage, path, source)
    /\ UNCHANGED <<chunk_config, last_call>>

InitVector ==
    /\ connections = {}
    /\ threads = <<>>
    /\ storage = VectorStorage
    /\ chunk_config \in ChunkConfigs
    /\ last_call = NoCall
    /\ sync_config = [on_search |-> TRUE, watch |-> FALSE]
    /\ disk = [f \in MemoryFiles |-> Absent]
    /\ dirty = FALSE
    /\ mgr = [pc |-> "new"]
    /\ watcher = [running |-> FALSE, pending |-> {}]
    /\ owed = {}
    /\ srch = NoSearch
    /\ merge_call = NoMerge

NextVector ==
    /\ \/ \E ok \in BOOLEAN : EnsureVectorTable(ok)
       \/ \E record \in VectorRecords : UpsertChunk(record)
       \/ \E path \in {"a.md", "b.md"} : DeleteChunksByPath(path, "docs")
    /\ UNCHANGED managerVars
    /\ UNCHANGED searchVars
    /\ UNCHANGED connVars

SpecVector == InitVector /\ [][NextVector]_vars

\* Concurrent specification: index_file("a.md", content, "docs") called by two
\* threads at once.  Every storage method runs under the storage lock, so a
\* step is one storage call; index_file itself holds no lock.
\* threads[t]: [pc, content, chunks, embeddings, n], n the chunks stored so far.
IndexBegin(t, content) ==
    /\ threads[t].pc = "idle"
    /\ threads' = [threads EXCEPT ![t] = [pc |-> "check", content |-> content,
                                          chunks |-> <<>>, embeddings |-> <<>>, n |-> 0]]
    /\ UNCHANGED storage

\* stored_hash = get_file_hash(...); an unchanged file is skipped
IndexCheck(t) ==
    /\ threads[t].pc = "check"
    /\ threads' = [threads EXCEPT ![t].pc =
                       IF get_file_hash(storage, "a.md", "docs")
                              = _calculate_hash(threads[t].content)
                       THEN "returned" ELSE "delete"]
    /\ UNCHANGED storage

\* delete_chunks_by_path(...), then the content is chunked
IndexDelete(t) ==
    /\ threads[t].pc = "delete"
    /\ storage' = delete_chunks_by_path(storage, "a.md", "docs")
    /\ LET chunks == chunk(threads[t].content, "a.md", "docs", chunk_config)
       IN threads' = [threads EXCEPT ![t].chunks = chunks,
                                     ![t].pc = IF chunks = <<>> THEN "record" ELSE "embed"]

\* embeddings = _embed_chunks_sync(chunks)
IndexEmbed(t) ==
    /\ threads[t].pc = "embed"
    /\ LET e == _embed_chunks_sync(storage, threads[t].chunks)
       IN /\ storage' = e.st
          /\ threads' = [threads EXCEPT ![t].embeddings = e.embeddings, ![t].pc = "store"]

\* One upsert_chunk of the loop
IndexStore(t) ==
    /\ threads[t].pc = "store"
    /\ LET n == threads[t].n + 1
       IN /\ storage' = upsert_chunk(storage, ChunkRecord(threads[t].chunks[n],
                                                          threads[t].embeddings[n]))
          /\ threads' = [threads EXCEPT ![t].n = n,
                                        ![t].pc = IF n = Len(threads[t].chunks)
                                                  THEN "record" ELSE "store"]

\* upsert_file(...); index_file returns
IndexRecord(t) ==
    /\ threads[t].pc = "record"
    /\ storage' = upsert_file(storage, "a.md", "docs", _calculate_hash(threads[t].content),
                              Len(threads[t].content))
    /\ threads' = [threads EXCEPT ![t].pc = "returned"]

\* Both callers have their IndexResult
IndexCallsDone ==
    /\ \A t \in Threads : threads[t].pc = "returned"
    /\ threads' = [t \in Threads |-> [pc |-> "idle"]]
    /\ UNCHANGED storage

InitConcurrent ==
    /\ connections = {}
    /\ threads = [t \in Threads |-> [pc |-> "idle"]]
    /\ storage = EmptyStorage
    /\ chunk_config \in ChunkConfigs
    /\ last_call = NoCall
    /\ sync_config = [on_search |-> TRUE, watch |-> FALSE]
    /\ disk = [f \in MemoryFiles |-> Absent]
    /\ dirty = FALSE
    /\ mgr = [pc |-> "new"]
    /\ watcher = [running |-> FALSE, pending |-> {}]
    /\ owed = {}
    /\ srch = NoSearch
    /\ merge_call = NoMerge

NextConcurrent ==
    /\ \E t \in Threads :
          \/ \E content \in IndexContents : IndexBegin(t, content)
          \/ IndexCheck(t)
          \/ IndexDelete(t)
          \/ IndexEmbed(t)
          \/ IndexStore(t)
          \/ IndexRecord(t)
          \/ IndexCallsDone
    /\ UNCHANGED <<chunk_config, last_call, connections>>
    /\ UNCHANGED managerVars
    /\ UNCHANGED searchVars

SpecConcurrent == InitConcurrent /\ [][NextConcurrent]_vars

\* Polling specification: PollingFileWatcher over one file watched directly and
\* one Markdown file inside a watched directory.  disk[f] is the file's mtime,
\* 0 when the file does not exist; watcher._files_state maps the files seen
\* to the mtime seen; watcher.calls are the callbacks of the last scan.
MaxMtime == 2
PollFiles == <<"MEMORY.md", "memory/a.md">>

\* _check_file(file_path): mtime is what os.path.getmtime returns, 0 when it
\* raises OSError
_check_file(w, file_path, mtime) ==
    IF mtime # 0
    THEN IF file_path \in DOMAIN w._files_state
         THEN IF w._files_state[file_path] # mtime
              THEN [w EXCEPT !._files_state[file_path] = mtime,
                             !.calls = Append(@, <<file_path, "modified">>)]
              ELSE w
         ELSE [w EXCEPT !._files_state = [f \in DOMAIN @ \cup {file_path} |->
                                             IF f = file_path THEN mtime ELSE @[f]],
                        !.calls = Append(@, <<file_path, "created">>)]
    ELSE IF file_path \in DOMAIN w._files_state
         THEN [w EXCEPT !._files_state = [f \in DOMAIN @ \ {file_path} |-> @[f]],
                        !.calls = Append(@, <<file_path, "deleted">>)]
         ELSE w

\* for path in watch_paths: _scan_path(path).  os.path.isfile and os.walk only
\* reach a file that exists (fs[f] # 0); the files of gone are removed between
\* that test and os.path.getmtime.
RECURSIVE _scan_path(_, _, _, _)
_scan_path(w, fs, gone, i) ==
    IF i > Len(PollFiles) THEN w
    ELSE LET f == PollFiles[i]
         IN _scan_path(IF fs[f] = 0 THEN w
                       ELSE _check_file(w, f, IF f \in gone THEN 0 ELSE fs[f]),
                       fs, gone, i + 1)

\* One iteration of _poll_loop
Poll(gone) ==
    /\ watcher.running
    /\ \A f \in gone : disk[f] # 0
    /\ watcher' = _scan_path([watcher EXCEPT !.calls = <<>>, !.polls = 1 - @], disk, gone, 1)
    /\ disk' = [f \in DOMAIN disk |-> IF f \in gone THEN 0 ELSE disk[f]]

\* Another process writes the file: it exists with a new mtime
WriteFile(f, mtime) ==
    /\ disk[f] # mtime
    /\ disk' = [disk EXCEPT ![f] = mtime]
    /\ UNCHANGED watcher

\* Another process removes the file
RemoveFile(f) ==
    /\ disk[f] # 0
    /\ disk' = [disk EXCEPT ![f] = 0]
    /\ UNCHANGED watcher

\* __init__ scans every watch path (add_path), start() sets _running
InitPoll ==
    /\ connections = {}
    /\ threads = <<>>
    /\ storage = EmptyStorage
    /\ chunk_config \in ChunkConfigs
    /\ last_call = NoCall
    /\ sync_config = [on_search |-> FALSE, watch |-> TRUE]
    /\ disk \in [Range(PollFiles) -> 0..MaxMtime]
    /\ dirty = FALSE
    /\ mgr = [pc |-> "new"]
    /\ watcher = _scan_path([running |-> TRUE, _files_state |-> <<>>, calls |-> <<>>,
                             polls |-> 0], disk, {}, 1)
    /\ owed = {}
    /\ srch = NoSearch
    /\ merge_call = NoMerge

NextPoll ==
    /\ \/ \E gone \in SUBSET Range(PollFiles) : Poll(gone)
       \/ \E f \in Range(PollFiles), mtime \in 1..MaxMtime : WriteFile(f, mtime)
       \/ \E f \in Range(PollFiles) : RemoveFile(f)
    /\ UNCHANGED <<storage, chunk_config, sync_config, dirty, mgr, owed>>
    /\ UNCHANGED indexerVars
    /\ UNCHANGED searchVars
    /\ UNCHANGED connVars

SpecPoll == InitPoll /\ [][NextPoll]_vars

\* Append specification: append_to_short_term(content) for today, called by
\* two threads at once.  A step is one file-system call.
\* threads[t]: [pc, content].
AppendContents == {<<1>>, <<2>>}

AppendBegin(t, content) ==
    /\ threads[t].pc = "idle"
    /\ threads' = [threads EXCEPT ![t] = [pc |-> "exists", content |-> content]]
    /\ UNCHANGED <<disk, dirty>>

\* if not memory_path.exists()
AppendExists(t) ==
    /\ threads[t].pc = "exists"
    /\ threads' = [threads EXCEPT ![t].pc = IF disk[Today] = Absent THEN "create" ELSE "append"]
    /\ UNCHANGED <<disk, dirty>>

\* memory_path.write_text(header): the file holds the header and nothing else
AppendCreate(t) ==
    /\ threads[t].pc = "create"
    /\ disk' = [disk EXCEPT ![Today] = ShortTermHeader]
    /\ threads' = [threads EXCEPT ![t].pc = "append"]
    /\ UNCHANGED dirty

\* open(memory_path, 'a') (creates a missing file), f.write(entry), _dirty = True
AppendWrite(t) ==
    /\ threads[t].pc = "append"
    /\ disk' = [disk EXCEPT ![Today] = (IF @ = Absent THEN <<>> ELSE @)
                                          \o ShortTermEntry(threads[t].content)]
    /\ dirty' = TRUE
    /\ threads' = [threads EXCEPT ![t].pc = "returned"]

InitAppend ==
    /\ connections = {}
    /\ threads = [t \in Threads |-> [pc |-> "idle"]]
    /\ storage = EmptyStorage
    /\ chunk_config \in ChunkConfigs
    /\ last_call = NoCall
    /\ sync_config = [on_search |-> TRUE, watch |-> FALSE]
    /\ disk \in [MemoryFiles -> {Absent, ShortTermHeader}]
    /\ dirty = FALSE
    /\ mgr = [pc |-> "idle"]
    /\ watcher = [running |-> FALSE, pending |-> {}]
    /\ owed = {}
    /\ srch = NoSearch
    /\ merge_call = NoMerge

NextAppend ==
    /\ \E t \in Threads :
          \/ \E content \in AppendContents : AppendBegin(t, content)
          \/ AppendExists(t)
          \/ AppendCreate(t)
          \/ AppendWrite(t)
    /\ UNCHANGED <<storage, chunk_config, sync_config, mgr, watcher, owed, connections>>
    /\ UNCHANGED indexerVars
    /\ UNCHANGED searchVars

SpecAppend == InitAppend /\ [][NextAppend]_vars

\* Debounce specification: FileWatcher with its MemoryFileEventHandler.
\* watcher._pending_changes maps a path to its last event type; watcher._timer
\* is the index of the current threading.Timer in watcher.timers, 0 for None;
\* a timer is [deadline, state]: "armed" while it waits, "fired" once its wait
\* ended without a cancel (it then runs _flush_changes as soon as it gets the
\* lock), "cancelled" or "done".  watcher.now is the clock in debounce windows,
\* watcher.queued the time of the last _queue_change, and watcher.calls the
\* callbacks made: [path, event, at, queued, running].
DebounceTicks == 1
MaxTimers == 3
MaxTime == 3
WatchedPaths == {"MEMORY.md", "2026-11-01.md"}

\* _queue_change(file_path, event_type), under the handler's lock.
\* Timer.cancel() only stops a timer that is still waiting.
QueueChange(file_path, event_type) ==
    /\ watcher.running
    /\ Len(watcher.timers) < MaxTimers
    /\ LET cancelled == IF watcher._timer # 0 /\ watcher.timers[watcher._timer].state = "armed"
                        THEN [watcher.timers EXCEPT ![watcher._timer].state = "cancelled"]
                        ELSE watcher.timers
       IN watcher' = [watcher EXCEPT
              !._pending_changes = [f \in DOMAIN @ \cup {file_path} |->
                                       IF f = file_path THEN event_type ELSE @[f]],
              !.timers = Append(cancelled, [deadline |-> watcher.now + DebounceTicks,
                                            state |-> "armed"]),
              !._timer = Len(watcher.timers) + 1,
              !.queued = watcher.now]

\* threading.Timer.run: the wait of debounce_ms ends and the timer was not cancelled
TimerFire(i) ==
    /\ watcher.timers[i].state = "armed"
    /\ watcher.now >= watcher.timers[i].deadline
    /\ watcher' = [watcher EXCEPT !.timers[i].state = "fired"]

\* _flush_changes on the timer's thread
FlushChanges(i) ==
    /\ watcher.timers[i].state = "fired"
    /\ watcher' = [watcher EXCEPT
           !.timers[i].state = "done",
           !._pending_changes = <<>>,
           !._timer = 0,
           !.calls = @ \cup {[path |-> f, event |-> watcher._pending_changes[f],
                              at |-> watcher.now, queued |-> watcher.queued,
                              running |-> watcher.running] :
                                f \in DOMAIN watcher._pending_changes}]

\* FileWatcher.stop(): the observer is stopped and joined, the handler dropped
Stop ==
    /\ watcher.running
    /\ watcher' = [watcher EXCEPT !.running = FALSE]

\* One debounce window passes
Tick ==
    /\ watcher.now < MaxTime
    /\ watcher' = [watcher EXCEPT !.now = @ + 1]

\* FileWatcher.start() has returned
InitDebounce ==
    /\ connections = {}
    /\ threads = <<>>
    /\ storage = EmptyStorage
    /\ chunk_config \in ChunkConfigs
    /\ last_call = NoCall
    /\ sync_config = [on_search |-> FALSE, watch |-> TRUE]
    /\ disk = [f \in MemoryFiles |-> Absent]
    /\ dirty = FALSE
    /\ mgr = [pc |-> "idle"]
    /\ watcher = [running |-> TRUE, _pending_changes |-> <<>>, _timer |-> 0,
                  timers |-> <<>>, now |-> 0, queued |-> 0, calls |-> {}]
    /\ owed = {}
    /\ srch = NoSearch
    /\ merge_call = NoMerge

NextDebounce ==
    /\ \/ \E file_path \in WatchedPaths, event_type \in {"created", "modified"} :
             QueueChange(file_path, event_type)
       \/ \E i \in 1..Len(watcher.timers) : TimerFire(i)
       \/ \E i \in 1..Len(watcher.timers) : FlushChanges(i)
       \/ Stop
       \/ Tick
    /\ UNCHANGED <<storage, chunk_config, sync_config, disk, dirty, mgr, owed>>
    /\ UNCHANGED indexerVars
    /\ UNCHANGED searchVars
    /\ UNCHANGED connVars

SpecDebounce == InitDebounce /\ [][NextDebounce]_vars

\* Source specification: the indexer with one path indexed under two sources
\* (index_document and index_memory_file of the same file), no statement failing.
SourceTargets == {<<"a.md", "docs">>, <<"a.md", "memory">>}

NextSource ==
    /\ \/ \E t \in SourceTargets, content \in IndexContents :
             IndexFile(t[1], content, t[2], "none", 0)
       \/ \E t \in SourceTargets : DeleteIndex(t[1], t[2])
    /\ UNCHANGED searchVars
    /\ UNCHANGED connVars

SpecSource == InitIndexer /\ [][NextSource]_vars

-----------------------------------------------------------------------------
(* Search specification: one Searcher.search call at a time, step by step,  *)
(* while other threads index and delete files in the same store (each       *)
(* storage call holds the storage lock, so the calls interleave whole).     *)

\* The (path, source) pairs in the store
SearchTargets == {<<"a.md", "docs">>, <<"m.md", "memory">>}

\* "a" and "a\nb" (one chunk each under ChunkConfigs)
SearchContents == {<<1>>, <<1, NL, 2>>}

\* "a", "b" and a blank query
SearchQueries == {<<1>>, <<2>>, <<NL>>}

SourceFilters == {{}, {"docs"}, {"docs", "memory"}}

MaxResults == 2

\* The min_score arguments: None and 0
MinScores == {<<>>, <<0>>}

\* search() up to the query embedding: a blank query returns [] at once
SearchStart(query, max_results, min_score, source_filter) ==
    /\ srch.pc = "idle"
    /\ srch' = [pc |-> IF query = <<>> \/ IsBlank(query) THEN "done" ELSE "embed",
                outcome |-> "returned",
                query |-> query, max_results |-> max_results,
                min_score_arg |-> min_score,
                min_score |-> effective_min_score(min_score, HybridConfig),
                source_filter |-> source_filter,
                candidates |-> max_results * HybridConfig.candidate_multiplier,
                query_vec |-> None, vector_results |-> <<>>, keyword_results |-> <<>>,
                rank |-> <<>>,
                merged |-> <<>>, todo |-> <<>>, out |-> <<>>]
    /\ UNCHANGED <<storage, chunk_config, merge_call>>

\* The event loop of the thread that calls search_sync: "none" (no current
\* loop), "stopped" (a current loop that is not running), "running" (the call
\* is made from code the loop is running).
LoopStates == {"none", "stopped", "running"}

\* asyncio.get_event_loop() raises RuntimeError where there is no current loop
get_event_loop_raises(loop) == loop = "none"

\* loop.run_until_complete(...) raises RuntimeError on a loop that is running
run_until_complete_raises(loop) == loop = "running"

\* asyncio.run(...) raises RuntimeError in a thread whose loop is running
asyncio_run_raises(loop) == loop = "running"

\* search_sync: try get_event_loop().run_until_complete(search(...)),
\* except RuntimeError: asyncio.run(search(...)).  TRUE: the call raises.
search_sync_raises(loop) ==
    /\ get_event_loop_raises(loop) \/ run_until_complete_raises(loop)
    /\ asyncio_run_raises(loop)

\* search_sync(query, max_results, min_score, source_filter) called in a thread
\* whose event loop is `loop`: the search starts, or the bridging raises.
SearchSyncCall(loop, query, max_results, min_score, source_filter) ==
    IF search_sync_raises(loop)
    THEN /\ srch.pc = "idle"
         /\ srch' = [pc |-> "sync_raised", loop |-> loop]
         /\ UNCHANGED <<storage, chunk_config, merge_call>>
    ELSE SearchStart(query, max_results, min_score, source_filter)

\* query_vec = await self.embedding.embed_query(query): outside any try
EmbedQuery(fail) ==
    /\ srch.pc = "embed"
    /\ srch' = IF fail
               THEN [srch EXCEPT !.pc = "done", !.outcome = "raised"]
               ELSE [srch EXCEPT !.pc = "vector", !.query_vec = embed_query(srch.query)]
    /\ UNCHANGED <<storage, chunk_config, merge_call>>

\* The vector channel of the gather; an exception is an empty list
SearchVectors(fail) ==
    /\ srch.pc = "vector"
    /\ srch' = [srch EXCEPT !.pc = "keyword",
                   !.vector_results =
                       IF fail THEN <<>>
                       ELSE search_vectors(storage, srch.query_vec, srch.candidates,
                                           srch.source_filter)]
    /\ UNCHANGED <<storage, chunk_config, merge_call>>

\* The keyword channel of the gather, then the merge and the filter
SearchKeywords(fail, rank) ==
    /\ srch.pc = "keyword"
    /\ LET keyword_results ==
               IF fail THEN <<>>
               ELSE search_fts(storage, srch.query, srch.candidates, srch.source_filter, rank)
           merged == _merge_results(srch.vector_results, keyword_results, HybridConfig)
       IN srch' = [srch EXCEPT !.pc = "enrich",
                      !.keyword_results = keyword_results,
                      !.rank = IF fail THEN <<>> ELSE rank,
                      !.merged = merged,
                      !.todo = filter_results(merged, srch.min_score, srch.max_results)]
    /\ UNCHANGED <<storage, chunk_config, merge_call>>

\* _enrich_results: one iteration of the loop
EnrichResult ==
    /\ srch.pc = "enrich"
    /\ srch.todo # <<>>
    /\ srch' = [srch EXCEPT !.todo = Tail(@),
                   !.out = @ \o enrich(storage, Head(srch.todo))]
    /\ UNCHANGED <<storage, chunk_config, merge_call>>

\* search() returns the enriched list
SearchReturn ==
    /\ srch.pc = "enrich"
    /\ srch.todo = <<>>
    /\ srch' = [srch EXCEPT !.pc = "done"]
    /\ UNCHANGED <<storage, chunk_config, merge_call>>

\* The caller has the result (or the exception)
SearchDone ==
    /\ srch.pc \in {"done", "sync_raised"}
    /\ srch' = NoSearch
    /\ UNCHANGED <<storage, chunk_config, merge_call>>

\* Another thread indexes a file
IndexDuringSearch(path, content, source) ==
    /\ storage' = index_file(storage, path, content, source, chunk_config, "none", 0).st
    /\ UNCHANGED <<chunk_config, srch, merge_call>>

\* Another thread removes a file's index (delete_index, remove_index)
DeleteDuringSearch(path, source) ==
    /\ storage' = delete_index(storage, path, source)
    /\ UNCHANGED <<chunk_config, srch, merge_call>>

InitSearch ==
    /\ connections = {}
    /\ threads = <<>>
    /\ storage = EmptyStorage
    /\ chunk_config \in ChunkConfigs
    /\ last_call = NoCall
    /\ sync_config = [on_search |-> TRUE, watch |-> FALSE]
    /\ disk = [f \in MemoryFiles |-> Absent]
    /\ dirty = FALSE
    /\ mgr = [pc |-> "new"]
    /\ watcher = [running |-> FALSE, pending |-> {}]
    /\ owed = {}
    /\ srch = NoSearch
    /\ merge_call = NoMerge

NextSearch ==
    /\ \/ \E query \in SearchQueries, max_results \in 1..MaxResults,
             min_score \in MinScores, source_filter \in SourceFilters :
             SearchStart(query, max_results, min_score, source_filter)
       \/ \E loop \in LoopStates, query \in SearchQueries, max_results \in 1..MaxResults,
             min_score \in MinScores, source_filter \in SourceFilters :
             SearchSyncCall(loop, query, max_results, min_score, source_filter)
       \/ \E fail \in BOOLEAN : EmbedQuery(fail)
       \/ \E fail \in BOOLEAN : SearchVectors(fail)
       \/ /\ srch.pc = "keyword"
          /\ \E fail \in BOOLEAN :
                \E rank \in [{c.id : c \in fts_matches(storage, srch.query)} -> FtsRanks] :
                   SearchKeywords(fail, rank)
       \/ EnrichResult
       \/ SearchReturn
       \/ SearchDone
       \/ \E t \in SearchTargets, content \in SearchContents :
             IndexDuringSearch(t[1], content, t[2])
       \/ \E t \in SearchTargets : DeleteDuringSearch(t[1], t[2])
    /\ UNCHANGED indexerVars
    /\ UNCHANGED managerVars
    /\ UNCHANGED connVars

SpecSearch == InitSearch /\ [][NextSearch]_vars

-----------------------------------------------------------------------------
(* Merge specification: _merge_results applied to any two hit lists (each   *)
(* channel returns a chunk id at most once).                                *)

MergeIds == {"c1", "c2", "c3"}

\* Scores 0, 0.5 and 1.0
ScoreLevels == {0, 5, 10}

MaxHits == 2

Hits == [chunk_id : MergeIds, score : ScoreLevels]

HitLists ==
    {<<>>} \cup UNION {{l \in [1..n -> Hits] :
                          \A i, j \in 1..n : i # j => l[i].chunk_id # l[j].chunk_id} :
                       n \in 1..MaxHits}

MergeResults ==
    /\ ~merge_call.done
    /\ merge_call' = [merge_call EXCEPT
                        !.out = _merge_results(merge_call.vector_results,
                                               merge_call.keyword_results, HybridConfig),
                        !.done = TRUE]
    /\ UNCHANGED <<storage, chunk_config, srch>>
    /\ UNCHANGED indexerVars
    /\ UNCHANGED managerVars
    /\ UNCHANGED connVars

InitMerge ==
    /\ connections = {}
    /\ threads = <<>>
    /\ storage = EmptyStorage
    /\ chunk_config \in ChunkConfigs
    /\ last_call = NoCall
    /\ sync_config = [on_search |-> TRUE, watch |-> FALSE]
    /\ disk = [f \in MemoryFiles |-> Absent]
    /\ dirty = FALSE
    /\ mgr = [pc |-> "new"]
    /\ watcher = [running |-> FALSE, pending |-> {}]
    /\ owed = {}
    /\ srch = NoSearch
    /\ merge_call \in [vector_results : HitLists, keyword_results : HitLists,
                       out : {<<>>}, done : {FALSE}]

NextMerge == MergeResults

SpecMerge == InitMerge /\ [][NextMerge]_vars

-----------------------------------------------------------------------------
(* Chunker specification: MarkdownChunker.chunk on its own, over every short
   content of letters and newlines and several chunk configurations. *)

MaxContentLen == 7

\* Every text of 'a' and '\n' of at most n characters.
RECURSIVE Texts(_)
Texts(n) == IF n = 0 THEN {<<>>}
            ELSE Texts(n - 1) \cup {Append(t, c) : t \in Texts(n - 1), c \in {1, NL}}

ChunkContents == Texts(MaxContentLen) \ {<<>>}

ChunkerConfigs == [max_chars : {3, 4}, overlap_chars : {0, 2}]

\* chunker.chunk(content, path, source) returns.
ChunkCall(content) ==
    /\ last_call' = [op |-> "chunk", content |-> content,
                     chunks |-> chunk(content, "a.md", "docs", chunk_config)]
    /\ UNCHANGED <<storage, chunk_config>>
    /\ UNCHANGED managerVars

InitChunker ==
    /\ connections = {}
    /\ threads = <<>>
    /\ storage = EmptyStorage
    /\ chunk_config \in ChunkerConfigs
    /\ last_call = NoCall
    /\ sync_config = [on_search |-> TRUE, watch |-> FALSE]
    /\ disk = [f \in MemoryFiles |-> Absent]
    /\ dirty = FALSE
    /\ mgr = [pc |-> "new"]
    /\ watcher = [running |-> FALSE, pending |-> {}]
    /\ owed = {}
    /\ srch = NoSearch
    /\ merge_call = NoMerge

NextChunker ==
    /\ \E content \in ChunkContents : ChunkCall(content)
    /\ UNCHANGED searchVars
    /\ UNCHANGED connVars

SpecChunker == InitChunker /\ [][NextChunker]_vars

-----------------------------------------------------------------------------
(* Claims about the indexer, under SpecIndexer *)

\* A stored ChunkRecord without the columns the indexer adds to a MemoryChunk.
AsChunk(r) == [id |-> r.id, text |-> r.text, start_line |-> r.start_line,
               end_line |-> r.end_line, hash |-> r.hash, path |-> r.path, source |-> r.source]

ChunksOf(content, path, source) ==
    LET cs == chunk(content, path, source, chunk_config)
    IN {cs[i] : i \in 1..Len(cs)}

StoredChunks(path, source) == {AsChunk(r) : r \in get_chunks_by_path(storage, path, source)}

\* C1: when index_file(path, B, source) succeeds right after a successful
\* index_file(path, A, source) with A # B, the chunks stored for (path, source)
\* are exactly the chunks of B: no chunk of A remains.
C1_ChangedFileFullReplace ==
    (last_call.op = "index_file" /\ last_call.result.success /\ last_call.after_success)
    => /\ StoredChunks(last_call.path, last_call.source)
          = ChunksOf(last_call.content, last_call.path, last_call.source)
       /\ Cardinality(get_chunks_by_path(storage, last_call.path, last_call.source))
          = Len(chunk(last_call.content, last_call.path, last_call.source, chunk_config))

\* C1 witness: a two-chunk content has replaced another successfully indexed content.
C1_Witness ==
    /\ last_call.op = "index_file" /\ last_call.result.success /\ last_call.after_success
    /\ last_call.result.chunks_indexed = 2
    /\ Cardinality(get_chunks_by_path(storage, last_call.path, last_call.source)) = 2

\* C2 (the claim as stated): an index_file that finds the content unchanged
\* returns success with chunks_indexed = 0 and chunks_skipped equal to the
\* number of chunks stored for that file, whatever else is indexed under the
\* same source.
C2_UnchangedSkipsFileChunks ==
    (last_call.op = "index_file" /\ last_call.taken = "unchanged" /\ last_call.result.success)
    => /\ last_call.result.chunks_indexed = 0
       /\ last_call.result.chunks_skipped
          = Cardinality(get_chunks_by_path(storage, last_call.path, last_call.source))

\* C9 (the claim as stated): whenever index_file returns success = false, the
\* file record of (path, source) does not hold the hash of the content.
C9_FailedNeverRecorded ==
    (last_call.op = "index_file" /\ ~last_call.result.success)
    => get_file_hash(storage, last_call.path, last_call.source)
       # _calculate_hash(last_call.content)

\* C9 (amended): whenever index_file returns success = false after its hash
\* comparison found the content changed (the failure is in deleting, chunking,
\* embedding or storing), the file record of (path, source) does not hold the
\* hash of the content, so the next call with that content re-attempts the
\* replace instead of taking the unchanged fast path.
C9_FailedReplaceNotRecorded ==
    (last_call.op = "index_file" /\ ~last_call.result.success /\ last_call.taken = "replace")
    => /\ get_file_hash(storage, last_call.path, last_call.source)
          # _calculate_hash(last_call.content)
       /\ \A fail \in FailPoints :
             index_file(storage, last_call.path, last_call.content, last_call.source,
                        chunk_config, fail, 0).taken # "unchanged"

\* C9 witness: a replace failed while storing, after one chunk went in.
C9_Witness ==
    /\ last_call.op = "index_file" /\ ~last_call.result.success /\ last_call.taken = "replace"
    /\ get_chunks_by_path(storage, last_call.path, last_call.source) # {}
    /\ Cardinality(get_chunks_by_path(storage, last_call.path, last_call.source))
       < Len(chunk(last_call.content, last_call.path, last_call.source, chunk_config))

\* What sync() attempted, and how it went, from the IndexResults themselves.
Failed(log) == LET Bad(e) == ~e.result.success IN SelectSeq(log, Bad)

Succeeded(log) == LET Good(e) == e.result.success IN SelectSeq(log, Good)

Names(log) == [i \in 1..Len(log) |-> log[i].name]

ExistingFiles(d) == (IF d[LongTermFile] # Absent THEN <<LongTermFile>> ELSE <<>>) \o glob(d)

\* C4: when sync() returns, every file that was indexed under source "memory"
\* and is not on disk during the sync (MEMORY.md or a daily file) has no chunk
\* and no file record left, and files_removed counts each such file once.
C4_DeletedFilesReconciled ==
    mgr.pc = "sync_return" =>
        /\ \A f \in mgr.gone :
              /\ get_chunks_by_path(storage, f, "memory") = {}
              /\ \A r \in storage.files : r.path # f
        /\ mgr.files_removed = Cardinality(mgr.gone)

\* C5: a search that starts after the callback for a changed file was
\* delivered runs a sync first, unless a sync has indexed the file since.
C5_SearchAfterCallbackSyncs ==
    [][(mgr.pc = "idle" /\ mgr'.pc = "query") => owed = {}]_vars

\* C6: search() runs sync() before the Searcher is queried if and only if the
\* dirty flag is set or sync.on_search is configured, and when the calls are
\* made one after another the Searcher is never queried while the flag is set.
C6_SyncBeforeSearch ==
    /\ [][/\ (mgr.pc = "idle" /\ mgr'.pc = "query") => ~(dirty \/ sync_config.on_search)
          /\ (mgr.pc = "idle" /\ mgr'.pc = "sync" /\ mgr'.caller = "search")
                => (dirty \/ sync_config.on_search)]_vars
    /\ [](mgr.pc = "query" => ~dirty)

\* A search after an append, with on_search off: the sync ran first.
C6_Witness ==
    /\ mgr.pc = "query"
    /\ mgr.synced
    /\ ~sync_config.on_search
    /\ ~dirty
    /\ \E f \in MemoryFiles : disk[f] # Absent /\ Len(disk[f]) > Len(LongTermHeader)

\* C7: when sync() returns, it has attempted every memory file on disk, errors
\* holds one entry per failed file (its name), files_synced counts the
\* successfully indexed files and chunks_indexed is the sum of their
\* chunks_indexed, whichever files failed.
C7_PerFileErrorIsolation ==
    mgr.pc = "sync_return" =>
        /\ Names(mgr.log) = ExistingFiles(disk)
        /\ mgr.errors = Names(Failed(mgr.log))
        /\ mgr.files_synced = Len(Succeeded(mgr.log))
        /\ mgr.chunks_indexed =
              SumSeq([i \in 1..Len(Succeeded(mgr.log)) |->
                        Succeeded(mgr.log)[i].result.chunks_indexed])

\* A sync in which MEMORY.md failed and the daily file was indexed after it.
C7_Witness ==
    /\ mgr.pc = "sync_return"
    /\ mgr.errors = <<LongTermFile>>
    /\ mgr.files_synced = 1
    /\ mgr.chunks_indexed > 0

\* C3: with a non-empty source_filter, every result search() returns has its
\* source in the filter, whatever is indexed or deleted while it runs.
C3_SourceFilterRespected ==
    (srch.pc = "done" /\ srch.outcome = "returned" /\ srch.source_filter # {}) =>
        \A i \in 1..Len(srch.out) : srch.out[i].source \in srch.source_filter

\* C8: search() returns a list and never raises, whether the query embedding,
\* the vector channel or the keyword channel fails.
C8_SearchNeverRaises ==
    srch.pc = "done" => srch.outcome = "returned"

\* The score a hit list gives a chunk id, 0 if the list does not hold it
ScoreIn(hits, chunk_id) ==
    IF \E i \in 1..Len(hits) : hits[i].chunk_id = chunk_id
    THEN hits[CHOOSE i \in 1..Len(hits) : hits[i].chunk_id = chunk_id].score
    ELSE 0

IdsOf(hits) == {hits[i].chunk_id : i \in 1..Len(hits)}

\* Where a chunk id first appears: in the vector list, or after it in the keyword list
FirstSeen(vector_results, keyword_results, chunk_id) ==
    LET both == vector_results \o keyword_results
    IN CHOOSE i \in 1..Len(both) :
          both[i].chunk_id = chunk_id /\ \A j \in 1..(i - 1) : both[j].chunk_id # chunk_id

\* C10: _merge_results returns one result per chunk id of the two lists, scored
\* vector_weight * vector_score + text_weight * text_score (0 for the list that
\* lacks the id), in non-increasing score order; the order is fixed by the two
\* lists alone (equal scores in order of first appearance), and a vector-only
\* hit of score 1.0 scores 0.7 and comes before a keyword-only hit of score 1.0,
\* which scores 0.3.
C10_HybridMerge ==
    merge_call.done =>
        LET v == merge_call.vector_results
            k == merge_call.keyword_results
            out == merge_call.out
        IN /\ IdsOf(out) = IdsOf(v) \cup IdsOf(k)
           /\ Len(out) = Cardinality(IdsOf(v) \cup IdsOf(k))
           /\ \A i \in 1..Len(out) :
                 /\ out[i].score = HybridConfig.vector_weight * ScoreIn(v, out[i].chunk_id)
                                   + HybridConfig.text_weight * ScoreIn(k, out[i].chunk_id)
                 /\ out[i].source = "" /\ out[i].path = "" /\ out[i].text = <<>>
           /\ \A i, j \in 1..Len(out) :
                 i < j => \/ out[i].score > out[j].score
                          \/ /\ out[i].score = out[j].score
                             /\ FirstSeen(v, k, out[i].chunk_id) < FirstSeen(v, k, out[j].chunk_id)
           /\ \A i, j \in 1..Len(out) :
                 (/\ ScoreIn(v, out[i].chunk_id) = 10 /\ out[i].chunk_id \notin IdsOf(k)
                  /\ ScoreIn(k, out[j].chunk_id) = 10 /\ out[j].chunk_id \notin IdsOf(v))
                 => (out[i].score = 70 /\ out[j].score = 30 /\ i < j)

\* A merge of a vector-only hit of score 1.0, a keyword-only hit of score 1.0
\* and a hit found by both channels
C10_Witness ==
    /\ merge_call.done
    /\ Len(merge_call.out) = 3
    /\ \E i, j \in 1..3 :
          /\ merge_call.out[i].score = 70
          /\ merge_call.out[j].score = 30
          /\ merge_call.out[i].chunk_id \notin IdsOf(merge_call.keyword_results)
          /\ merge_call.out[j].chunk_id \notin IdsOf(merge_call.vector_results)
    /\ IdsOf(merge_call.vector_results) \cap IdsOf(merge_call.keyword_results) # {}

-----------------------------------------------------------------------------
(* Claims about min_score, under SpecSearch *)

\* The threshold the caller asked for: the configured default only for None
RequestedMinScore(min_score) ==
    IF min_score = <<>> THEN HybridConfig.min_score ELSE min_score[1]

\* C11 (the claim as stated): search() returns the first max_results of the
\* merged results whose score is at least the caller's min_score (0 included),
\* the configured default being used only when the caller gives none.
C11_MinScoreAndTruncation ==
    (srch.pc = "done" /\ srch.outcome = "returned") =>
        LET m == RequestedMinScore(srch.min_score_arg)
            AtLeast(r) == r.score >= m
            expected == Take(SelectSeq(srch.merged, AtLeast), srch.max_results)
        IN /\ Len(srch.out) = Len(expected)
           /\ \A i \in 1..Len(expected) :
                 /\ srch.out[i].chunk_id = expected[i].chunk_id
                 /\ srch.out[i].score = expected[i].score

-----------------------------------------------------------------------------
(* Claims about compaction, under SpecCompact *)

\* What happened to a file, as the strategy names it
Happened(e) ==
    (IF e.promoted THEN {"summarize"} ELSE {})
        \cup (IF e.archived THEN {"archive"} ELSE {})
        \cup (IF e.deleted THEN {"delete"} ELSE {})

KnownStrategies == {"summarize", "archive", "delete"}

\* C12 (the claim as stated): in one compact_short_term run with one of the
\* three strategies, every file older than the cutoff has exactly the
\* strategy's outcome and is counted once in files_compacted; every other file
\* is untouched and not counted.
C12_CompactionExclusive ==
    (mgr.pc = "compact_return" /\ mgr.strategy \in KnownStrategies) =>
        /\ \A i \in 1..Len(mgr.log) :
              LET e == mgr.log[i]
              IN IF IsOld(e.name, mgr.days_to_keep)
                 THEN Happened(e) = {mgr.strategy} /\ e.counted = 1
                 ELSE Happened(e) = {} /\ e.kept /\ e.counted = 0
        /\ mgr.files_compacted = SumSeq([i \in 1..Len(mgr.log) |-> mgr.log[i].counted])

\* C12 (amended): the same for every old file whose file operation does not
\* raise; an old file whose operation raises is skipped: nothing happens to it
\* and it is not counted.
C12_CompactionExclusiveUnlessFailed ==
    (mgr.pc = "compact_return" /\ mgr.strategy \in KnownStrategies) =>
        /\ \A i \in 1..Len(mgr.log) :
              LET e == mgr.log[i]
              IN IF IsOld(e.name, mgr.days_to_keep) /\ ~e.failed
                 THEN /\ Happened(e) = {mgr.strategy}
                      /\ e.counted = 1
                      /\ (mgr.strategy = "summarize" <=> e.kept)
                 ELSE Happened(e) = {} /\ e.kept /\ e.counted = 0
        /\ mgr.files_compacted = SumSeq([i \in 1..Len(mgr.log) |-> mgr.log[i].counted])

\* A summarize run over an old file (summarized), today's file (inside the
\* retention window) and an undated file
C12_Witness ==
    /\ mgr.pc = "compact_return"
    /\ mgr.strategy = "summarize"
    /\ mgr.days_to_keep = 7
    /\ Len(mgr.log) = 3
    /\ mgr.log[1].promoted /\ mgr.log[1].kept
    /\ mgr.files_compacted = 1

-----------------------------------------------------------------------------
(* Claims about the chunker, under SpecChunker *)

\* The lines of a content, a final newline not counted as one more line.
SourceLines(content) == split(rstrip(content))

\* The lines of a chunk's text.
LinesOf(c) == split(c.text)

\* Every line of `lines` whose position is in `which` is one of the lines of
\* some chunk's text, in source order: a later line is never placed in an
\* earlier chunk than a line before it.
CoveredInOrder(lines, which, chunks) ==
    \E f \in [which -> 1..Len(chunks)] :
        /\ \A i \in which : lines[i] \in Range(LinesOf(chunks[f[i]]))
        /\ \A i, j \in which : i < j => f[i] <= f[j]

\* C14 (the claim as stated): for every non-blank content every line of the
\* content, empty lines included, is a line of the text of some chunk, the
\* chunks in source order.
C14_EveryLineCovered ==
    (last_call.op = "chunk" /\ ~IsBlank(last_call.content))
    => LET lines == SourceLines(last_call.content)
       IN CoveredInOrder(lines, 1..Len(lines), last_call.chunks)

\* C14 (amended): for every non-blank content every line that is not empty is
\* a line of the text of some chunk, the chunks in source order.
C14_NonEmptyLinesCovered ==
    (last_call.op = "chunk" /\ ~IsBlank(last_call.content))
    => LET lines == SourceLines(last_call.content)
       IN CoveredInOrder(lines, {i \in 1..Len(lines) : lines[i] # <<>>}, last_call.chunks)

\* C14 witness: a content of three non-empty lines was split into at least two
\* chunks, the later one seeded with an overlap line.
C14_Witness ==
    /\ last_call.op = "chunk"
    /\ last_call.content = <<1, NL, 1, NL, 1, 1, 1>>
    /\ chunk_config = [max_chars |-> 4, overlap_chars |-> 2]
    /\ Len(last_call.chunks) = 2
    /\ last_call.chunks[2].text = <<1, NL, 1, 1, 1>>

\* C19 (the claim as stated): every chunk has start_line <= end_line and its
\* text is the source lines start_line..end_line (1-indexed, inclusive).
C19_LineRangesAccurate ==
    last_call.op = "chunk"
    => \A k \in 1..Len(last_call.chunks) :
          LET c == last_call.chunks[k]
              lines == split(last_call.content)
          IN /\ c.start_line <= c.end_line
             /\ c.start_line >= 1 /\ c.end_line <= Len(lines)
             /\ c.text = rstrip(join([j \in 1..(c.end_line - c.start_line + 1) |->
                                        lines[c.start_line + j - 1] \o <<NL>>]))

\* C20 (the claim as stated): when every line with its newline is no longer
\* than max_chars, the lines held by each chunk, overlap lines included, take
\* at most max_chars characters.  The text of a chunk is its lines without the
\* final newlines, so the lines take at least Len(text) + 1 characters.
C20_ChunksSizeBounded ==
    (/\ last_call.op = "chunk"
     /\ \A i \in 1..Len(split(last_call.content)) :
           Len(split(last_call.content)[i]) + 1 <= chunk_config.max_chars)
    => \A k \in 1..Len(last_call.chunks) :
          Len(last_call.chunks[k].text) + 1 <= chunk_config.max_chars

-----------------------------------------------------------------------------
(* Claims about the source of a path, under SpecSource *)

\* C15 (the claim as stated): after an index_file of a path that stored its
\* chunks and its file record, there is exactly one file record for the path
\* and every chunk stored for the path carries the source of that record.
C15_OneSourcePerPath ==
    (last_call.op = "index_file" /\ last_call.result.success)
    => /\ Cardinality({f \in get_all_files(storage) : f.path = last_call.path}) = 1
       /\ \A c \in storage.chunks :
             c.path = last_call.path
             => \E f \in get_all_files(storage) : f.path = c.path /\ f.source = c.source

-----------------------------------------------------------------------------
(* Claims about sync(force), under SpecManager *)

\* The chunks of every memory file on the disk, counted.
RECURSIVE ChunksOnDisk(_)
ChunksOnDisk(files) ==
    IF files = {} THEN 0
    ELSE LET f == CHOOSE g \in files : TRUE
         IN Len(chunk(disk[f], f, "memory", chunk_config)) + ChunksOnDisk(files \ {f})

\* C16 (the claim as stated): a sync(force=True) in which no file fails
\* re-indexes every memory file, so chunks_indexed counts the chunks of all
\* memory files on the disk; a sync(force=False) counts no chunk of a file
\* whose content hash matches the stored hash.
C16_ForceReindexesAll ==
    (/\ mgr.pc = "sync_return" /\ mgr.caller = "sync"
     /\ \A i \in 1..Len(mgr.log) : mgr.log[i].result.success)
    => IF mgr.force
       THEN mgr.chunks_indexed = ChunksOnDisk(Range(ExistingFiles(disk)))
       ELSE mgr.chunks_indexed <= ChunksOnDisk(Range(ExistingFiles(disk)))

-----------------------------------------------------------------------------
(* Claims about close(), under SpecClose *)

\* C17 (the claim as stated): after close() has returned the watcher is not
\* running and no thread that used the storage has a connection left open.
C17_CloseReleasesEverything ==
    mgr.pc = "closed" => (~watcher.running /\ connections = {})

-----------------------------------------------------------------------------
(* Claims about search_sync, under SpecSearch *)

\* C18 (the claim as stated): search_sync never raises out of its bridging,
\* whether the calling thread has no event loop, a stopped one or a running one.
C18_SearchSyncBridges ==
    srch.pc # "sync_raised"

-----------------------------------------------------------------------------
(* Claims about the keyword scores, under SpecSearch *)

\* C22 (the claim as stated): of two hits of one search_fts query the one the
\* full-text engine ranks as more relevant (the more negative bm25 rank) has a
\* score at least as high as the other, and every score lies in (0, 1] (in
\* tenths: 1..10).
C22_FtsScoreHigherIsBetter ==
    (srch.pc \in {"enrich", "done"} /\ srch.keyword_results # <<>>)
    => \A i, j \in 1..Len(srch.keyword_results) :
          LET a == srch.keyword_results[i]
              b == srch.keyword_results[j]
          IN /\ a.score \in 1..10
             /\ srch.rank[a.chunk_id] < srch.rank[b.chunk_id] => a.score >= b.score

-----------------------------------------------------------------------------
(* Claims about the index after failures, under SpecIndexer *)

\* C25 (the claim as stated): in every state, if the file record of
\* (path, source) holds hash h, the chunks stored for (path, source) are
\* exactly the chunks of the content whose hash is h.
C25_RecordedHashMatchesChunks ==
    \A f \in get_all_files(storage) :
        \A content \in IndexContents :
            f.hash = _calculate_hash(content)
            => StoredChunks(f.path, f.source) = ChunksOf(content, f.path, f.source)

-----------------------------------------------------------------------------
(* Claims about repeated and unknown compaction, under SpecCompact *)

\* How many times `entry` occurs in `text`.
Occurrences(entry, text) ==
    Cardinality({i \in 1..(Len(text) - Len(entry) + 1) :
                    SubSeq(text, i, i + Len(entry) - 1) = entry})

\* C29 (the claim as stated): the daily files never change, so a summarize run
\* promotes the summary of a daily file only if MEMORY.md does not hold it yet:
\* when the run returns, the summary entry of every file it summarized is in
\* MEMORY.md exactly once.
C29_SummarizeIdempotent ==
    (mgr.pc = "compact_return" /\ mgr.strategy = "summarize")
    => \A i \in 1..Len(mgr.log) :
          mgr.log[i].promoted
          => Occurrences(SummaryEntry(mgr.log[i].name, CompactContent(mgr.log[i].name)),
                         disk[LongTermFile]) = 1

\* C30 (the claim as stated): a run deletes a daily file without archiving it
\* only if its strategy is exactly "delete".
C30_DeleteOnlyOnRequest ==
    (mgr.pc = "compact_return" /\ \E i \in 1..Len(mgr.log) : mgr.log[i].deleted)
    => mgr.strategy = "delete"

-----------------------------------------------------------------------------
(* Claims about the vector index, under SpecVector *)

\* C21 (the claim as stated): whenever the vector table exists, the chunk ids
\* of its rows are the ids of the chunk rows that have a non-empty embedding.
C21_VectorMirrorConsistent ==
    storage.vec_present
    => storage.chunks_vec = {c.id : c \in {r \in storage.chunks : r.embedding # None}}

-----------------------------------------------------------------------------
(* Claims about concurrent index_file calls, under SpecConcurrent *)

\* C26 (the claim as stated): once two concurrent index_file calls of one
\* path with different contents have both returned, the chunks stored for the
\* path are exactly the chunks of the content whose hash is in the file record.
C26_ConcurrentIndexNotMixed ==
    (/\ \A t \in Threads : threads[t].pc = "returned"
     /\ threads["main"].content # threads["worker"].content)
    => \E t \in Threads :
          /\ get_file_hash(storage, "a.md", "docs") = _calculate_hash(threads[t].content)
          /\ StoredChunks("a.md", "docs") = ChunksOf(threads[t].content, "a.md", "docs")

-----------------------------------------------------------------------------
(* Claims about the polling watcher, under SpecPoll *)

\* The events the last scan reported for file f, in order
PollEvents(w, f) == SelectSeq(w.calls, LAMBDA c : c[1] = f)

\* C24 (the claim as stated): on each poll a file present and seen for the
\* first time gets one "created" callback, a seen file whose mtime changed
\* gets one "modified" callback, and a seen file that no longer exists gets
\* exactly one "deleted" callback and is forgotten.
C24_PollClassifies ==
    [][watcher'.polls # watcher.polls =>
         \A f \in Range(PollFiles) :
            LET seen == f \in DOMAIN watcher._files_state
            IN /\ (~seen /\ disk'[f] # 0) => PollEvents(watcher', f) = <<<<f, "created">>>>
               /\ (seen /\ disk'[f] # 0 /\ disk'[f] # watcher._files_state[f])
                     => PollEvents(watcher', f) = <<<<f, "modified">>>>
               /\ (seen /\ disk'[f] = 0)
                     => /\ PollEvents(watcher', f) = <<<<f, "deleted">>>>
                        /\ f \notin DOMAIN watcher'._files_state]_vars

-----------------------------------------------------------------------------
(* Claims about concurrent append_to_short_term calls, under SpecAppend *)

\* C27 (the claim as stated): the entry of every append_to_short_term call
\* that returned is in the day's file, in every interleaving of the calls.
C27_NoLostAppends ==
    \A t \in Threads :
        threads[t].pc = "returned"
        => /\ disk[Today] # Absent
           /\ Occurrences(ShortTermEntry(threads[t].content), disk[Today]) >= 1

-----------------------------------------------------------------------------
(* Claims about the native watcher, under SpecDebounce *)

\* C23 (the claim as stated, its timing part): every callback is invoked at
\* least one debounce window after the last event queued before it, also when
\* _queue_change runs while a timer that has fired waits to flush.
C23_CallbackAfterQuietWindow ==
    \A c \in watcher.calls : c.at >= c.queued + DebounceTicks

\* C28 (the claim as stated): no callback is invoked after FileWatcher.stop()
\* has returned, even when a debounce timer was pending at the stop.
C28_NoCallbackAfterStop ==
    \A c \in watcher.calls : c.running

====
